---- MODULE Spec2Model ----
(***************************************************************************)
(* Model of the Graphlit MCP server: the tool handlers of src/src/tools.ts *)
(* (registerTools, lines 30-2657) and the resource registry in its two     *)
(* revisions, src/src/index.ts (registerResources, lines 2065-2484) and    *)
(* src/unnamed/part_002 (registerResources, lines 15-449).                 *)
(*                                                                         *)
(* A handler is an async function: it runs synchronously up to its first   *)
(* await, is resumed when the awaited remote call settles, and so on until *)
(* it returns or throws.  One invocation is one record of inv; the text it *)
(* returns is a string built the way the code builds it.                   *)
(***************************************************************************)
EXTENDS Integers, Sequences, FiniteSets, TLC

VARIABLES
    rev,        \* the revision of the resource registry that is running
    env,        \* process.env, restricted to the names the handlers read
    alive,      \* FALSE once process.exit has been called
    exitCode,   \* the status passed to process.exit
    inv,        \* the handler invocations, by slot
    reads,      \* history: dereferences of {id} URIs started
    gets        \* history: remote get operations those dereferences issued

vars == <<rev, env, alive, exitCode, inv, reads, gets>>

(***************************************************************************)
(* Bounds of the model.                                                    *)
(***************************************************************************)
MaxConc == 2        \* invocation slots of SpecConc
MaxReads == 2       \* dereferences of {id} URIs in one run
MaxMissing == 1     \* configuration values that are not set to a token

(***************************************************************************)
(* JavaScript values.                                                      *)
(***************************************************************************)
UNDEFINED == "undefined"

\* !v is false: v is neither undefined nor the empty string.
\* A variant that only tests for undefined: v !== undefined
Defined(v) == v # UNDEFINED

Truthy(v) == v # UNDEFINED /\ v # ""

\* An optional number is <<>> (omitted) or <<n>>.
ReadLimits == {<<>>, <<0>>, <<5>>}

\* readLimit || dflt
\* A variant that keeps every supplied number: readLimit ?? dflt
OrDefaultNullish(readLimit, dflt) == IF readLimit = <<>> THEN dflt ELSE readLimit[1]

OrDefault(readLimit, dflt) ==
    IF readLimit = <<>> \/ readLimit[1] = 0 THEN dflt ELSE readLimit[1]

\* A null element of a remote result list, or a null sub-object.
NullEntity == [null |-> TRUE]

IsNull(x) == "null" \in DOMAIN x

\* JSON.stringify of a string; undefined stays undefined.
JsonString(s) == IF s = UNDEFINED THEN UNDEFINED ELSE "\"" \o s \o "\""

\* The members of a pretty-printed object: fields is a sequence of <<key, JSON text>>,
\* a field whose value is undefined is dropped, the others are joined by ",\n".
RECURSIVE JsonMembers(_)
JsonMembers(fields) ==
    IF fields = <<>> THEN ""
    ELSE LET rest == JsonMembers(Tail(fields))
             f == Head(fields)
         IN  IF f[2] = UNDEFINED THEN rest
             ELSE "  \"" \o f[1] \o "\": " \o f[2] \o (IF rest = "" THEN "" ELSE ",\n" \o rest)

\* JSON.stringify({ ... }, null, 2)
JsonObject(fields) ==
    IF JsonMembers(fields) = "" THEN "{}" ELSE "{\n" \o JsonMembers(fields) \o "\n}"

JsonObject1(key, value) == JsonObject(<<(<<key, value>>)>>)

(***************************************************************************)
(* Remote answers.  A remote call resolves with a value or rejects with an *)
(* Error carrying a message.                                               *)
(***************************************************************************)
Messages == {"rate limited", "unauthorized"}

Rejections == {[ok |-> FALSE, msg |-> m] : m \in Messages}

Resolved(v) == [ok |-> TRUE, val |-> v]

(***************************************************************************)
(* The envelope of a tool response.                                        *)
(***************************************************************************)
TextBlock(t) == [type |-> "text", text |-> t]

\* The success payload: one text block, no isError key.
ToolResult(t) == [content |-> <<TextBlock(t)>>, isError |-> FALSE]

\* catch (err) { return { content: [{ type: "text", text: `Error: ${error.message}` }], isError: true } }
ErrorResult(m) == [content |-> <<TextBlock("Error: " \o m)>>, isError |-> TRUE]

NoResponse == [none |-> TRUE]

(***************************************************************************)
(* Invocation records.                                                     *)
(*   pc: "idle"   the slot is free                                         *)
(*       "await"  suspended at an await of the remote call ops[Len(ops)]   *)
(*       "done"   returned response                                        *)
(*       "threw"  rejected: the exception escaped the handler              *)
(*       "exited" called process.exit, never resumes                       *)
(***************************************************************************)
Idle ==
    [kind |-> "idle", name |-> "", args |-> <<>>, pc |-> "idle", inTry |-> FALSE,
     ops |-> <<>>, answers |-> <<>>, locals |-> <<>>,
     response |-> NoResponse, escaped |-> ""]

Begun(kind, name, args) == [Idle EXCEPT !.kind = kind, !.name = name, !.args = args]

\* await client.op(...): issue the request and suspend.
Await(r, request, inTry) ==
    [r EXCEPT !.pc = "await", !.ops = Append(@, request), !.inTry = inTry]

Return(r, response) == [r EXCEPT !.pc = "done", !.response = response]

Throw(r, m) == [r EXCEPT !.pc = "threw", !.escaped = m]

Exit(r) == [r EXCEPT !.pc = "exited"]

Pending(r) == r.ops[Len(r.ops)]

(***************************************************************************)
(* The configuration values the modelled tools read.                       *)
(***************************************************************************)
EnvNames ==
    {"SHAREPOINT_ACCOUNT_NAME", "SHAREPOINT_CLIENT_ID", "SHAREPOINT_CLIENT_SECRET",
     "SHAREPOINT_REFRESH_TOKEN", "SLACK_BOT_TOKEN", "FROM_EMAIL_ADDRESS"}

\* The launcher of smithery.yaml: config.slackBotToken || ''
LauncherValue(configured) == IF Truthy(configured) THEN configured ELSE ""

\* A value is left as the shell has it (not set, or a token) or comes from the launcher.
EnvValues == {UNDEFINED, "tok"} \cup {LauncherValue(c) : c \in {UNDEFINED, "", "tok"}}

EnvChoices ==
    {e \in [EnvNames -> EnvValues] :
        Cardinality({n \in EnvNames : e[n] # "tok"}) <= MaxMissing}

RequiredEnv(tool) ==
    CASE tool = "ingestSharePointFiles" ->
             <<"SHAREPOINT_ACCOUNT_NAME", "SHAREPOINT_CLIENT_ID",
               "SHAREPOINT_CLIENT_SECRET", "SHAREPOINT_REFRESH_TOKEN">>
      [] tool = "ingestSlackMessages" -> <<"SLACK_BOT_TOKEN">>
      [] tool = "sendSlackNotification" -> <<"SLACK_BOT_TOKEN">>
      [] tool = "sendEmailNotification" -> <<"FROM_EMAIL_ADDRESS">>
      [] OTHER -> <<>>

\* if (!value) { console.error(...); process.exit(1); } for each required name
CredentialsPresent(tool) ==
    \A k \in 1..Len(RequiredEnv(tool)) : Truthy(env[RequiredEnv(tool)[k]])

Credentials(tool) == [k \in 1..Len(RequiredEnv(tool)) |-> env[RequiredEnv(tool)[k]]]

(***************************************************************************)
(* Tools of one remote operation: the credential checks, then one request  *)
(* inside try, then the salient field of the answer as JSON.               *)
(***************************************************************************)
IngestTools == {"ingestSharePointFiles", "ingestSlackMessages", "webCrawl", "ingestRSS"}

OneOpTools ==
    IngestTools \cup {"ingestUrl", "sendSlackNotification", "sendEmailNotification"}

RemoteOp(tool) ==
    CASE tool \in IngestTools -> "createFeed"
      [] tool = "ingestUrl" -> "ingestUri"
      [] OTHER -> "sendNotification"

\* The key of the success payload: { id: response.createFeed?.id } or
\* { success: response.sendNotification?.result }.
ResultKey(tool) == IF RemoteOp(tool) = "sendNotification" THEN "success" ELSE "id"

RSS_READ_LIMIT == 25

FEED_READ_LIMIT == 100

DefaultReadLimit(tool) == IF tool = "ingestRSS" THEN RSS_READ_LIMIT ELSE FEED_READ_LIMIT

\* The request handed to the remote client.
OneOpRequest(tool, args) ==
    [op |-> RemoteOp(tool),
     readLimit |-> IF tool \in IngestTools
                   THEN <<OrDefault(args.readLimit, DefaultReadLimit(tool))>> ELSE <<>>,
     creds |-> Credentials(tool)]

OneOpArgs(tool) ==
    IF tool \in IngestTools THEN {[readLimit |-> n] : n \in ReadLimits} ELSE {<<>>}

\* What the remote operation can answer: the salient field as JSON text (it is
\* undefined when the answer's inner object is null), or a rejection.
OneOpAnswers(op) ==
    (IF op = "sendNotification"
     THEN {Resolved(v) : v \in {UNDEFINED, "true", "false"}}
     ELSE {Resolved(v) : v \in {UNDEFINED, "id-1"}})
    \cup Rejections

\* A variant that reports a missing value as an error result and keeps the process.
Begin_OneOpReporting(r) ==
    IF ~CredentialsPresent(r.name)
    THEN Return(r, ErrorResult("Please set the required environment variable."))
    ELSE Await(r, OneOpRequest(r.name, r.args), TRUE)

\* A variant that tests only the first of the required values.
Begin_OneOpFirstChecked(r) ==
    IF RequiredEnv(r.name) # <<>> /\ ~Truthy(env[RequiredEnv(r.name)[1]]) THEN Exit(r)
    ELSE Await(r, OneOpRequest(r.name, r.args), TRUE)

Begin_OneOp(r) ==
    IF ~CredentialsPresent(r.name) THEN Exit(r)
    ELSE Await(r, OneOpRequest(r.name, r.args), TRUE)

\* A variant that issues the operation a second time after a rejection.
Resume_OneOpRetrying(r, ans) ==
    IF ans.ok
    THEN Return(r, ToolResult(JsonObject1(ResultKey(r.name),
                    IF ResultKey(r.name) = "id" THEN JsonString(ans.val) ELSE ans.val)))
    ELSE IF Len(r.ops) < 2 THEN Await(r, Pending(r), TRUE)
    ELSE Return(r, ErrorResult(ans.msg))

\* A variant that issues the operation again after every rejection, until it succeeds.
Resume_OneOpUntilSuccess(r, ans) ==
    IF ans.ok
    THEN Return(r, ToolResult(JsonObject1(ResultKey(r.name),
                    IF ResultKey(r.name) = "id" THEN JsonString(ans.val) ELSE ans.val)))
    ELSE [r EXCEPT !.answers = <<ans>>]

Resume_OneOp(r, ans) ==
    IF ans.ok
    THEN Return(r, ToolResult(JsonObject1(ResultKey(r.name),
                    IF ResultKey(r.name) = "id" THEN JsonString(ans.val) ELSE ans.val)))
    ELSE Return(r, ErrorResult(ans.msg))

(***************************************************************************)
(* configureProject (tools.ts 31-155): up to two specifications, then the  *)
(* workflow, then the project update; only the last await is inside try.   *)
(***************************************************************************)
ServiceTypes == {"ANTHROPIC", "GROQ"}

SupportedServiceTypes == {"ANTHROPIC", "GOOGLE", "OPEN_AI"}

ConfigureArgs ==
    {[enablePreparation |-> p, enableExtraction |-> x, serviceType |-> s] :
        p \in BOOLEAN, x \in BOOLEAN, s \in ServiceTypes}

ConfigureLocals ==
    [preparationSpecificationId |-> UNDEFINED,
     extractionSpecificationId |-> UNDEFINED,
     workflowId |-> UNDEFINED]

UpsertSpecification(type, serviceType) ==
    [op |-> "upsertSpecification", type |-> type, serviceType |-> serviceType]

UpsertWorkflow(locals) ==
    [op |-> "upsertWorkflow",
     preparation |-> locals.preparationSpecificationId,
     extraction |-> locals.extractionSpecificationId]

UpdateProject(locals) == [op |-> "updateProject", workflow |-> locals.workflowId]

\* An upsert or update answers the entity's id, or undefined when the inner object is null.
IdAnswers == {Resolved(v) : v \in {UNDEFINED, "id-1"}} \cup Rejections

\* The part of the handler from "if (enableExtraction)" on.
ConfigureFromExtraction(r) ==
    IF r.args.enableExtraction
    THEN Await(r, UpsertSpecification("EXTRACTION", r.args.serviceType), FALSE)
    ELSE Await(r, UpsertWorkflow(r.locals), FALSE)

Begin_configureProject(r0) ==
    LET r == [r0 EXCEPT !.locals = ConfigureLocals]
    IN  IF r.args.serviceType \notin SupportedServiceTypes
        THEN Throw(r, "Unsupported model service type [" \o r.args.serviceType \o "].")
        ELSE IF r.args.enablePreparation
        THEN Await(r, UpsertSpecification("PREPARATION", r.args.serviceType), FALSE)
        ELSE ConfigureFromExtraction(r)

\* A variant of the handler that carries on with an undefined id when an upsert rejects.
Resume_configureProjectContinuing(r, ans) ==
    LET req == Pending(r)
        val == IF ans.ok THEN ans.val ELSE UNDEFINED
    IN  IF ~ans.ok /\ r.inTry
        THEN Return(r, ErrorResult(ans.msg))
        ELSE CASE req.op = "upsertSpecification" /\ req.type = "PREPARATION" ->
                    ConfigureFromExtraction(
                        [r EXCEPT !.locals.preparationSpecificationId = val])
               [] req.op = "upsertSpecification" /\ req.type = "EXTRACTION" ->
                    LET r1 == [r EXCEPT !.locals.extractionSpecificationId = val]
                    IN  Await(r1, UpsertWorkflow(r1.locals), FALSE)
               [] req.op = "upsertWorkflow" ->
                    LET r1 == [r EXCEPT !.locals.workflowId = val]
                    IN  Await(r1, UpdateProject(r1.locals), TRUE)
               [] OTHER ->
                    Return(r, ToolResult(JsonObject1("id", JsonString(val))))

Resume_configureProject(r, ans) ==
    LET req == Pending(r)
    IN  IF ~ans.ok
        THEN (IF r.inTry THEN Return(r, ErrorResult(ans.msg)) ELSE Throw(r, ans.msg))
        ELSE CASE req.op = "upsertSpecification" /\ req.type = "PREPARATION" ->
                    ConfigureFromExtraction(
                        [r EXCEPT !.locals.preparationSpecificationId = ans.val])
               [] req.op = "upsertSpecification" /\ req.type = "EXTRACTION" ->
                    LET r1 == [r EXCEPT !.locals.extractionSpecificationId = ans.val]
                    IN  Await(r1, UpsertWorkflow(r1.locals), FALSE)
               [] req.op = "upsertWorkflow" ->
                    LET r1 == [r EXCEPT !.locals.workflowId = ans.val]
                    IN  Await(r1, UpdateProject(r1.locals), TRUE)
               [] OTHER ->
                    Return(r, ToolResult(JsonObject1("id", JsonString(ans.val))))

(***************************************************************************)
(* ingestFile (tools.ts 2318-2356): the local file is read inside try      *)
(* before the one remote operation.                                        *)
(***************************************************************************)
FilePaths == {"/data/report.pdf", "/data/missing.pdf"}

\* fs.readFileSync(filePath) returns the bytes, or throws for a file that is not there.
FileReadable(filePath) == filePath = "/data/report.pdf"

ReadFileError(filePath) == "ENOENT: no such file or directory, open '" \o filePath \o "'"

IngestFileArgs == {[filePath |-> f] : f \in FilePaths}

Begin_ingestFile(r) ==
    IF ~FileReadable(r.args.filePath)
    THEN Return(r, ErrorResult(ReadFileError(r.args.filePath)))
    ELSE Await(r, [op |-> "ingestEncodedFile", fileName |-> r.args.filePath], TRUE)

Resume_ingestFile(r, ans) ==
    IF ans.ok THEN Return(r, ToolResult(JsonObject1("id", JsonString(ans.val))))
    ELSE Return(r, ErrorResult(ans.msg))

(***************************************************************************)
(* Content records as the remote platform returns them.  A field that the  *)
(* record does not carry reads as undefined.                               *)
(***************************************************************************)
Field(c, name) == IF name \in DOMAIN c THEN c[name] ELSE UNDEFINED

Has(c, name) == name \in DOMAIN c

DocumentContent ==
    [id |-> "abc123", type |-> "FILE", fileType |-> "DOCUMENT",
     fileName |-> "report.pdf", markdown |-> "# Report body"]

ImageContent ==
    [id |-> "img-1", type |-> "FILE", fileType |-> "IMAGE", fileName |-> "photo.png",
     uri |-> "https://cdn/photo.png", imageUri |-> "https://cdn/photo.jpg",
     mimeType |-> "image/png"]

\* An image whose record carries neither uri nor imageUri.
BareImageContent ==
    [id |-> "img-2", type |-> "FILE", fileType |-> "IMAGE", fileName |-> "scan.png"]

SmallContents == {DocumentContent, ImageContent, BareImageContent}

\* fetch(url): a response (ok or not) with its body already read, or a rejection.  The
\* await of fetchResponse.arrayBuffer() is folded into this answer.
FetchAnswers ==
    {Resolved([ok |-> TRUE, statusText |-> "OK", data |-> "aW1hZ2U=", contentType |-> t]) :
        t \in {UNDEFINED, "image/png"}}
    \cup {Resolved([ok |-> FALSE, statusText |-> "Not Found", data |-> "",
                    contentType |-> UNDEFINED])}
    \cup Rejections

\* fetchResponse.headers.get('content-type') || 'application/octet-stream'
MimeTypeOf(fetched) ==
    IF Truthy(fetched.contentType) THEN fetched.contentType ELSE "application/octet-stream"

\* sequence.filter(x => x !== null)
RECURSIVE NonNull(_)
NonNull(seq) ==
    IF seq = <<>> THEN <<>>
    ELSE IF Len(seq) = 1 THEN (IF IsNull(seq[1]) THEN <<>> ELSE seq)
    ELSE LET half == Len(seq) \div 2
         IN  NonNull(SubSeq(seq, 1, half)) \o NonNull(SubSeq(seq, half + 1, Len(seq)))

\* A listing answer is [results |-> sequence], or the null entity when the answer's
\* inner object is null.
Results(seq) == [results |-> seq]

\* response.x?.results || []
ResultsOrEmpty(val) == IF Has(val, "results") THEN val.results ELSE <<>>

(***************************************************************************)
(* retrieveImages (tools.ts 236-314): the image is fetched outside try,    *)
(* then one query inside try.                                              *)
(***************************************************************************)
ImageUrls == {"", "https://example.com/cat.png"}

RetrieveImagesArgs == {[url |-> u] : u \in ImageUrls}

QueryContentsAnswers ==
    {Resolved(NullEntity), Resolved(Results(<<NullEntity, ImageContent>>))} \cup Rejections

QueryImages(locals) ==
    [op |-> "queryContents", imageData |-> locals.data, imageMimeType |-> locals.mimeType]

ImageLocals == [data |-> UNDEFINED, mimeType |-> UNDEFINED]

JsonBlock(t) == [type |-> "text", mimeType |-> "application/json", text |-> t]

ContentRow(c) ==
    JsonBlock(JsonObject(<<
        <<"id", JsonString(Field(c, "id"))>>,
        <<"relevance", Field(c, "relevance")>>,
        <<"fileName", JsonString(Field(c, "fileName"))>>,
        <<"resourceUri", JsonString("contents://" \o Field(c, "id"))>>,
        <<"uri", JsonString(Field(c, "imageUri"))>>,
        <<"mimeType", JsonString(Field(c, "mimeType"))>> >>))

Begin_retrieveImages(r0) ==
    LET r == [r0 EXCEPT !.locals = ImageLocals]
    IN  IF Truthy(r.args.url)
        THEN Await(r, [op |-> "fetch", url |-> r.args.url], FALSE)
        ELSE Await(r, QueryImages(r.locals), TRUE)

Resume_retrieveImages(r, ans) ==
    LET req == Pending(r)
    IN  IF req.op = "fetch"
        THEN IF ~ans.ok THEN Throw(r, ans.msg)
             ELSE IF ~ans.val.ok
             THEN Throw(r, "Failed to fetch data from " \o req.url \o ": " \o ans.val.statusText)
             ELSE LET r1 == [r EXCEPT !.locals =
                                [data |-> ans.val.data, mimeType |-> MimeTypeOf(ans.val)]]
                  IN  Await(r1, QueryImages(r1.locals), TRUE)
        ELSE IF ~ans.ok THEN Return(r, ErrorResult(ans.msg))
             ELSE Return(r, [content |->
                                [k \in 1..Len(NonNull(ResultsOrEmpty(ans.val))) |->
                                    ContentRow(NonNull(ResultsOrEmpty(ans.val))[k])],
                             isError |-> FALSE])

(***************************************************************************)
(* describeImageContent (tools.ts 2428-2489): the content is fetched, and  *)
(* if it has an image URI the image is described; both inside try.         *)
(***************************************************************************)
ContentIds == {"abc123"}

DescribeArgs == {[id |-> i] : i \in ContentIds}

GetContentAnswers == {Resolved(c) : c \in SmallContents \cup {NullEntity}} \cup Rejections

DescribeAnswers == {Resolved(v) : v \in {UNDEFINED, "A cat."}} \cup Rejections

Begin_describeImageContent(r) == Await(r, [op |-> "getContent", id |-> r.args.id], TRUE)

Resume_describeImageContent(r, ans) ==
    IF ~ans.ok THEN Return(r, ErrorResult(ans.msg))
    ELSE IF Pending(r).op = "getContent"
    THEN IF ~IsNull(ans.val) /\ Field(ans.val, "imageUri") # UNDEFINED
         THEN Await(r, [op |-> "describeImage", uri |-> ans.val.imageUri], TRUE)
         ELSE Return(r, ToolResult("{}"))
    ELSE Return(r, ToolResult(JsonObject1("message", JsonString(ans.val))))

(***************************************************************************)
(* retrieveSources (tools.ts 157-221): one retrieval inside try, one JSON  *)
(* block per non-null source.                                              *)
(***************************************************************************)
SourceHit == [content |-> [id |-> "abc123"], relevance |-> "0.9", text |-> "Report body"]

RetrieveSourcesAnswers ==
    {Resolved(NullEntity), Resolved(Results(<<SourceHit, NullEntity>>))} \cup Rejections

SourceRow(source) ==
    JsonBlock(JsonObject(<<
        <<"id", JsonString(Field(Field(source, "content"), "id"))>>,
        <<"relevance", Field(source, "relevance")>>,
        <<"resourceUri", JsonString("contents://" \o Field(Field(source, "content"), "id"))>>,
        <<"text", JsonString(Field(source, "text"))>>,
        <<"mimeType", JsonString("text/markdown")>> >>))

Begin_retrieveSources(r) == Await(r, [op |-> "retrieveSources"], TRUE)

Resume_retrieveSources(r, ans) ==
    IF ~ans.ok THEN Return(r, ErrorResult(ans.msg))
    ELSE Return(r, [content |->
                        [k \in 1..Len(NonNull(ResultsOrEmpty(ans.val))) |->
                            SourceRow(NonNull(ResultsOrEmpty(ans.val))[k])],
                    isError |-> FALSE])

(***************************************************************************)
(* The tool registry.                                                      *)
(***************************************************************************)
Tools ==
    OneOpTools \cup
    {"configureProject", "retrieveSources", "retrieveImages", "describeImageContent",
     "ingestFile"}

ToolArgs(tool) ==
    CASE tool = "configureProject" -> ConfigureArgs
      [] tool = "retrieveImages" -> RetrieveImagesArgs
      [] tool = "describeImageContent" -> DescribeArgs
      [] tool = "ingestFile" -> IngestFileArgs
      [] tool = "retrieveSources" -> {<<>>}
      [] OTHER -> OneOpArgs(tool)

\* The handler from its call to its first await, return, throw or exit.
BeginTool(r) ==
    CASE r.name = "configureProject" -> Begin_configureProject(r)
      [] r.name = "retrieveImages" -> Begin_retrieveImages(r)
      [] r.name = "describeImageContent" -> Begin_describeImageContent(r)
      [] r.name = "ingestFile" -> Begin_ingestFile(r)
      [] r.name = "retrieveSources" -> Begin_retrieveSources(r)
      [] OTHER -> Begin_OneOp(r)

\* The handler from the settling of its pending await to the next one, or to its end.
ResumeTool(r, ans) ==
    CASE r.name = "configureProject" -> Resume_configureProject(r, ans)
      [] r.name = "retrieveImages" -> Resume_retrieveImages(r, ans)
      [] r.name = "describeImageContent" -> Resume_describeImageContent(r, ans)
      [] r.name = "ingestFile" -> Resume_ingestFile(r, ans)
      [] r.name = "retrieveSources" -> Resume_retrieveSources(r, ans)
      [] OTHER -> Resume_OneOp(r, ans)

\* What the pending remote call of a tool invocation can answer.
ToolAnswers(r) ==
    LET op == Pending(r).op
    IN  CASE op = "fetch" -> FetchAnswers
          [] op = "queryContents" -> QueryContentsAnswers
          [] op = "getContent" -> GetContentAnswers
          [] op = "describeImage" -> DescribeAnswers
          [] op = "retrieveSources" -> RetrieveSourcesAnswers
          [] op \in {"upsertSpecification", "upsertWorkflow", "updateProject",
                     "ingestEncodedFile"} -> IdAnswers
          [] OTHER -> OneOpAnswers(op)

(***************************************************************************)
(* The resource registry.  A registration is a URI template of a scheme,   *)
(* bare ("feeds://") or with an id ("feeds://{id}"), with or without a     *)
(* list callback, and a read callback.                                     *)
(***************************************************************************)
Registration(scheme, withId, list, read) ==
    [scheme |-> scheme, withId |-> withId, list |-> list, read |-> read]

\* server.resource(..., new ResourceTemplate("s://", { list }), read returning no contents)
\* followed by server.resource(..., new ResourceTemplate("s://{id}", { list: undefined }), read)
ListAndRead(scheme) ==
    {Registration(scheme, FALSE, TRUE, "empty"), Registration(scheme, TRUE, FALSE, "entity")}

\* src/src/index.ts 2065-2484
RegistryIndex ==
    UNION {ListAndRead(s) : s \in {"feeds", "collections", "contents", "workflows",
                                   "specifications", "projects"}}

\* A variant that registers both templates for every scheme.
RegistryUniform ==
    UNION {ListAndRead(s) : s \in {"conversations", "feeds", "collections", "contents",
                                   "workflows", "specifications", "projects"}}

\* src/unnamed/part_002 15-449: projects:// is one template, without list and without id.
RegistryResources ==
    UNION {ListAndRead(s) : s \in {"conversations", "feeds", "collections", "contents",
                                   "workflows", "specifications"}}
    \cup {Registration("projects", FALSE, FALSE, "entity")}

registerResources(revision) ==
    IF revision = "index" THEN RegistryIndex ELSE RegistryResources

Schemes ==
    {"contents", "feeds", "collections", "workflows", "specifications", "conversations",
     "projects"}

ResourceIds == {"abc123"}

\* The URI a registration's template matches.
UriOf(reg, id) == reg.scheme \o "://" \o (IF reg.withId THEN id ELSE "")

(***************************************************************************)
(* Listing.                                                                *)
(***************************************************************************)
MaxResults == 2     \* length of a remote result list

Alpha == [id |-> "a1", name |-> "Alpha"]

Beta == [id |-> "b2", name |-> "Beta", description |-> "second", mimeType |-> "image/png"]

ListEntities == {Alpha, Beta, NullEntity}

RECURSIVE SeqsUpTo(_, _)
SeqsUpTo(S, n) ==
    IF n = 0 THEN {<<>>}
    ELSE SeqsUpTo(S, n - 1) \cup {Append(q, x) : q \in {p \in SeqsUpTo(S, n - 1) : Len(p) = n - 1}, x \in S}

ListAnswers ==
    {Resolved(Results(q)) : q \in SeqsUpTo(ListEntities, MaxResults)}
    \cup {Resolved(NullEntity)} \cup Rejections

\* The project query of the projects:// listing: the one project, or null.
ProjectAnswers == {Resolved(Alpha), Resolved(NullEntity)} \cup Rejections

ListOp(scheme) ==
    CASE scheme = "conversations" -> "queryConversations"
      [] scheme = "feeds" -> "queryFeeds"
      [] scheme = "collections" -> "queryCollections"
      [] scheme = "contents" -> "queryContents"
      [] scheme = "workflows" -> "queryWorkflows"
      [] scheme = "specifications" -> "querySpecifications"
      [] OTHER -> "getProject"

\* A variant that puts the id before the scheme.
ResourceUriSwapped(scheme, entity) == Field(entity, "id") \o "://" \o scheme

\* `${scheme}://${entity.id}`
ResourceUri(scheme, entity) == scheme \o "://" \o Field(entity, "id")

\* x || dflt for strings
StrOr(x, dflt) == IF Truthy(x) THEN x ELSE dflt

\* One listed resource: the .map callback of each list.
ListedResource(scheme, entity) ==
    CASE scheme = "contents" ->
             [name |-> Field(entity, "name"),
              description |-> StrOr(Field(entity, "description"), ""),
              uri |-> ResourceUri(scheme, entity),
              mimeType |-> StrOr(Field(entity, "mimeType"), "text/markdown")]
      [] scheme = "conversations" ->
             [name |-> Field(entity, "name"),
              uri |-> ResourceUri(scheme, entity),
              mimeType |-> "text/markdown"]
      [] OTHER ->
             [name |-> Field(entity, "name"), uri |-> ResourceUri(scheme, entity)]

\* (response.x?.results || []).filter(e => e !== null).map(...); for projects the
\* one project, if any.
ListedResources(scheme, val) ==
    LET entities == IF scheme = "projects"
                    THEN (IF IsNull(val) THEN <<>> ELSE <<val>>)
                    ELSE NonNull(ResultsOrEmpty(val))
    IN  [k \in 1..Len(entities) |-> ListedResource(scheme, entities[k])]

ListResult(resources) == [resources |-> resources]

Begin_list(r) == Await(r, [op |-> ListOp(r.name)], TRUE)

\* A variant whose catch block rethrows.
Resume_listRethrowing(r, ans) ==
    IF ans.ok THEN Return(r, ListResult(ListedResources(r.name, ans.val)))
    ELSE Throw(r, ans.msg)

Resume_list(r, ans) ==
    IF ans.ok THEN Return(r, ListResult(ListedResources(r.name, ans.val)))
    ELSE Return(r, ListResult(<<>>))

(***************************************************************************)
(* The content formatter, formatContent: src/unnamed/part_002 484-695      *)
(* (revision "resources") and src/src/index.ts 2486-2626 (revision         *)
(* "index").  The result is the lines pushed to results, joined by "\n".   *)
(***************************************************************************)
\* array.join(sep), computed by halves so that long lists stay within the stack.
RECURSIVE Join(_, _)
Join(lines, sep) ==
    IF lines = <<>> THEN ""
    ELSE IF Len(lines) = 1 THEN lines[1]
    ELSE LET half == Len(lines) \div 2
         IN  Join(SubSeq(lines, 1, half), sep) \o sep \o
             Join(SubSeq(lines, half + 1, Len(lines)), sep)

\* array.slice(0, n)
Slice(seq, n) == SubSeq(seq, 1, IF Len(seq) < n THEN Len(seq) ELSE n)

\* array.map(f)
Map(f(_), seq) == [k \in 1..Len(seq) |-> f(seq[k])]

\* array.filter(keep)
RECURSIVE Filter(_, _)
Filter(keep(_), seq) ==
    IF seq = <<>> THEN <<>>
    ELSE IF Len(seq) = 1 THEN (IF keep(seq[1]) THEN seq ELSE <<>>)
    ELSE LET half == Len(seq) \div 2
         IN  Filter(keep, SubSeq(seq, 1, half)) \o Filter(keep, SubSeq(seq, half + 1, Len(seq)))

\* String(n) of a natural number
Digit(d) == SubSeq("0123456789", d + 1, d + 1)

RECURSIVE NumStr(_)
NumStr(n) == IF n < 10 THEN Digit(n) ELSE NumStr(n \div 10) \o Digit(n % 10)

\* content.x is an array (a null array is modelled as a missing one)
HasList(c, name) == Has(c, name)

\* content.x?.length
HasItems(c, name) == Has(c, name) /\ Len(c[name]) > 0

\* content.x is an object (neither undefined nor null)
HasObject(c, name) == Has(c, name) /\ ~IsNull(c[name])

\* if (x.field) results.push(`**Label:** ${x.field}`)
Labelled(label, value) == IF Truthy(value) THEN <<"**" \o label \o ":** " \o value>> ELSE <<>>

\* attributes.filter(([_, value]) => value).map(([label, value]) => `**${label}:** ${value}`)
RECURSIVE Attributes(_)
Attributes(pairs) ==
    IF pairs = <<>> THEN <<>>
    ELSE Labelled(Head(pairs)[1], Head(pairs)[2]) \o Attributes(Tail(pairs))

\* A variant that pushes the name line for every type other than File.
HeaderLinesNamed(c) ==
    <<"**Content ID:** " \o Field(c, "id")>> \o
    (IF Field(c, "type") = "FILE"
     THEN <<"**File Type:** [" \o Field(c, "fileType") \o "]",
            "**File Name:** " \o Field(c, "fileName")>>
     ELSE <<"**Type:** [" \o Field(c, "type") \o "]", "**Name:** " \o Field(c, "name")>>)

HeaderLines(c) ==
    <<"**Content ID:** " \o Field(c, "id")>> \o
    (IF Field(c, "type") = "FILE"
     THEN <<"**File Type:** [" \o Field(c, "fileType") \o "]",
            "**File Name:** " \o Field(c, "fileName")>>
     ELSE <<"**Type:** [" \o Field(c, "type") \o "]">> \o
          (IF Field(c, "type") # "PAGE" /\ Field(c, "type") # "EMAIL"
           THEN <<"**Name:** " \o Field(c, "name")>> ELSE <<>>))

\* A variant that pushes every metadata line without testing the field.
MetadataLinesUnguarded(revision, c) ==
    <<"**Ingestion Date:** " \o Field(c, "creationDate"),
      "**Author Date:** " \o Field(c, "originalDate")>>

\* A variant of the part_002 metadata with the source uri line left in.
MetadataLinesWithUri(revision, c) ==
    Labelled("URI", Field(c, "uri")) \o
    Labelled("Downloadable Original", Field(c, "masterUri")) \o
    Labelled("Downloadable Image", Field(c, "imageUri")) \o
    Labelled("Downloadable Audio", Field(c, "audioUri")) \o
    Labelled("Ingestion Date", Field(c, "creationDate")) \o
    Labelled("Author Date", Field(c, "originalDate"))

MetadataLines(revision, c) ==
    IF revision = "index"
    THEN Labelled("URI", Field(c, "uri")) \o
         Labelled("Ingestion Date", Field(c, "creationDate")) \o
         Labelled("Author Date", Field(c, "originalDate")) \o
         Labelled("Image URI", Field(c, "imageUri")) \o
         Labelled("Audio URI", Field(c, "audioUri"))
    ELSE Labelled("Downloadable Original", Field(c, "masterUri")) \o
         Labelled("Downloadable Image", Field(c, "imageUri")) \o
         Labelled("Downloadable Audio", Field(c, "audioUri")) \o
         Labelled("Ingestion Date", Field(c, "creationDate")) \o
         Labelled("Author Date", Field(c, "originalDate"))

\* array?.join(", "); undefined when the array is missing
JoinedOrUndefined(x, name) == IF HasList(x, name) THEN Join(x[name], ", ") ELSE UNDEFINED

IssueLines(c) ==
    IF ~HasObject(c, "issue") THEN <<>>
    ELSE LET issue == c.issue
         IN  Attributes(<<
                 <<"Title", Field(issue, "title")>>,
                 <<"Identifier", Field(issue, "identifier")>>,
                 <<"Type", Field(issue, "type")>>,
                 <<"Project", Field(issue, "project")>>,
                 <<"Team", Field(issue, "team")>>,
                 <<"Status", Field(issue, "status")>>,
                 <<"Priority", Field(issue, "priority")>> >>) \o
             (IF HasItems(issue, "labels")
              THEN <<"**Labels:** " \o Join(issue.labels, ", ")>> ELSE <<>>)

\* (r) => `${r.name} <${r.email}>`
formatRecipient(r) == Field(r, "name") \o " <" \o Field(r, "email") \o ">"

Recipients(email, name) ==
    IF HasList(email, name) THEN Join(Map(formatRecipient, email[name]), ", ") ELSE UNDEFINED

EmailLines(c) ==
    IF ~HasObject(c, "email") THEN <<>>
    ELSE LET email == c.email
         IN  Attributes(<<
                 <<"Subject", Field(email, "subject")>>,
                 <<"Sensitivity", Field(email, "sensitivity")>>,
                 <<"Priority", Field(email, "priority")>>,
                 <<"Importance", Field(email, "importance")>>,
                 <<"Labels", JoinedOrUndefined(email, "labels")>>,
                 <<"To", Recipients(email, "to")>>,
                 <<"From", Recipients(email, "from")>>,
                 <<"CC", Recipients(email, "cc")>>,
                 <<"BCC", Recipients(email, "bcc")>> >>)

\* A variant that pushes the author before the title.
DocumentLinesAuthorFirst(c) ==
    IF ~HasObject(c, "document") THEN <<>>
    ELSE Labelled("Author", Field(c.document, "author")) \o
         Labelled("Title", Field(c.document, "title"))

DocumentLines(c) ==
    IF ~HasObject(c, "document") THEN <<>>
    ELSE Labelled("Title", Field(c.document, "title")) \o
         Labelled("Author", Field(c.document, "author"))

AudioLines(c) ==
    IF ~HasObject(c, "audio") THEN <<>>
    ELSE Labelled("Title", Field(c.audio, "title")) \o
         Labelled("Host", Field(c.audio, "author")) \o
         Labelled("Episode", Field(c.audio, "episode")) \o
         Labelled("Series", Field(c.audio, "series"))

ImageLines(c) ==
    IF ~HasObject(c, "image") THEN <<>>
    ELSE Labelled("Description", Field(c.image, "description")) \o
         Labelled("Software", Field(c.image, "software")) \o
         Labelled("Make", Field(c.image, "make")) \o
         Labelled("Model", Field(c.image, "model"))

MAX_COLLECTIONS == 100

MAX_CHILDREN == 100

MAX_LINKS == 1000

MAX_LINKS_INDEX == 100

MAX_OBSERVATIONS == 100

CollectionLine(collection) ==
    "**Collection [" \o Field(collection, "name") \o "]:** collections://" \o
    Field(collection, "id")

\* A variant that keeps every membership.
CollectionLinesUncut(c) ==
    IF ~HasList(c, "collections") THEN <<>>
    ELSE Map(CollectionLine, NonNull(c.collections))

CollectionLines(c) ==
    IF ~HasList(c, "collections") THEN <<>>
    ELSE Map(CollectionLine, Slice(NonNull(c.collections), MAX_COLLECTIONS))

ParentLines(c) ==
    IF ~HasObject(c, "parent") THEN <<>>
    ELSE <<"**Parent Content:** contents://" \o Field(c.parent, "id")>>

ChildLine(child) == "**Child Content:** contents://" \o Field(child, "id")

ChildLines(c) ==
    IF ~HasList(c, "children") THEN <<>>
    ELSE Map(ChildLine, Slice(NonNull(c.children), MAX_CHILDREN))

LinkLine(link) == "**" \o Field(link, "linkType") \o " Link:** " \o Field(link, "uri")

LinkLines(revision, c) ==
    IF ~(HasList(c, "links") /\ Field(c, "type") = "PAGE") THEN <<>>
    ELSE Map(LinkLine,
             Slice(c.links, IF revision = "index" THEN MAX_LINKS_INDEX ELSE MAX_LINKS))

\* type.toLowerCase() of the observable types
ToLowerCase(type) ==
    CASE type = "PERSON" -> "person"
      [] type = "ORGANIZATION" -> "organization"
      [] type = "LABEL" -> "label"
      [] OTHER -> type

\* observation.observable !== null
ObservableNotNull(observation) ==
    ~(Has(observation, "observable") /\ IsNull(observation.observable))

ObservationLine(observation) ==
    "**" \o Field(observation, "type") \o ":** " \o ToLowerCase(Field(observation, "type"))
    \o "s://" \o Field(Field(observation, "observable"), "id")

\* The observations that reach the .map callback.
Observed(c) ==
    IF ~HasList(c, "observations") THEN <<>>
    ELSE Slice(Filter(ObservableNotNull, NonNull(c.observations)), MAX_OBSERVATIONS)

ObservationLines(c) == Map(ObservationLine, Observed(c))

\* chunk?.text is kept by the filter
ChunkHasText(chunk) == ~IsNull(chunk) /\ Truthy(Field(chunk, "text"))

ChunkText(chunk) == Field(chunk, "text")

SEPARATOR == "\n---\n"

\* (x.index || 0) + 1
IndexPlusOne(x) == (IF Has(x, "index") THEN x.index ELSE 0) + 1

\* A variant that pushes a line for every chunk, empty for a chunk without text.
ChunkTextOrEmpty(chunk) == IF ChunkHasText(chunk) THEN Field(chunk, "text") ELSE ""

PageLinesAllChunks(page) ==
    IF ~HasItems(page, "chunks") THEN <<>>
    ELSE <<"**Page #" \o NumStr(IndexPlusOne(page)) \o ":**">> \o
         Map(ChunkTextOrEmpty, page.chunks) \o
         <<SEPARATOR>>

PageLines(page) ==
    IF ~HasItems(page, "chunks") THEN <<>>
    ELSE <<"**Page #" \o NumStr(IndexPlusOne(page)) \o ":**">> \o
         Map(ChunkText, Filter(ChunkHasText, page.chunks)) \o
         <<SEPARATOR>>

SegmentLines(segment) ==
    <<"**Transcript Segment [" \o Field(segment, "startTime") \o "-" \o
        Field(segment, "endTime") \o "]:**",
      StrOr(Field(segment, "text"), ""),
      SEPARATOR>>

FrameLines(frame) ==
    <<"**Frame #" \o NumStr(IndexPlusOne(frame)) \o ":**",
      StrOr(Field(frame, "text"), ""),
      SEPARATOR>>

RECURSIVE FlatMap(_, _)
FlatMap(f(_), seq) ==
    IF seq = <<>> THEN <<>> ELSE f(Head(seq)) \o FlatMap(f, Tail(seq))

PagesBody(c) == IF HasItems(c, "pages") THEN FlatMap(PageLines, c.pages) ELSE <<>>

SegmentsBody(c) == IF HasItems(c, "segments") THEN FlatMap(SegmentLines, c.segments) ELSE <<>>

FramesBody(c) == IF HasItems(c, "frames") THEN FlatMap(FrameLines, c.frames) ELSE <<>>

\* A variant that renders the flat markdown whenever the record has one.
MarkdownAlways(c) ==
    IF Truthy(Field(c, "markdown")) THEN <<c.markdown, "\n">> ELSE <<>>

MarkdownBody(c) ==
    IF ~HasItems(c, "pages") /\ ~HasItems(c, "segments") /\ ~HasItems(c, "frames")
       /\ Truthy(Field(c, "markdown"))
    THEN <<c.markdown, "\n">> ELSE <<>>

\* A variant in which the first form present is the only one rendered.
BodyFirstMatch(c) ==
    IF PagesBody(c) # <<>> THEN PagesBody(c)
    ELSE IF SegmentsBody(c) # <<>> THEN SegmentsBody(c)
    ELSE IF FramesBody(c) # <<>> THEN FramesBody(c)
    ELSE MarkdownBody(c)

BodyLines(c) == PagesBody(c) \o SegmentsBody(c) \o FramesBody(c) \o MarkdownBody(c)

\* The lines pushed to results, in order.
ContentLines(revision, c) ==
    HeaderLines(c) \o MetadataLines(revision, c) \o
    IssueLines(c) \o EmailLines(c) \o DocumentLines(c) \o AudioLines(c) \o ImageLines(c) \o
    (IF revision = "index" THEN <<>>
     ELSE CollectionLines(c) \o ParentLines(c) \o ChildLines(c)) \o
    LinkLines(revision, c) \o
    (IF revision = "index" THEN <<>> ELSE ObservationLines(c)) \o
    BodyLines(c)

\* A property read of null or undefined: r.name of a null recipient, link.linkType of a
\* null link, observation.type.toLowerCase() of a missing type, page.chunks of a null
\* page, segment.startTime of a null segment, frame.index of a null frame.
SomeNull(x, name) == HasList(x, name) /\ \E k \in 1..Len(x[name]) : IsNull(x[name][k])

ContentThrows(revision, c) ==
    \/ HasObject(c, "email") /\ \E n \in {"to", "from", "cc", "bcc"} : SomeNull(c.email, n)
    \/ HasList(c, "links") /\ Field(c, "type") = "PAGE" /\
       \E k \in 1..Len(Slice(c.links, IF revision = "index" THEN MAX_LINKS_INDEX ELSE MAX_LINKS)) :
           IsNull(c.links[k])
    \/ revision # "index" /\
       \E k \in 1..Len(Observed(c)) :
           \/ ~Has(Observed(c)[k], "type")
           \/ ~Has(Observed(c)[k], "observable")
    \/ SomeNull(c, "pages") \/ SomeNull(c, "segments") \/ SomeNull(c, "frames")

TYPE_ERROR == "Cannot read properties of null"

\* formatContent(response): the text, or the TypeError it throws.
formatContent(revision, content) ==
    IF IsNull(content) THEN Resolved("")
    ELSE IF ContentThrows(revision, content) THEN [ok |-> FALSE, msg |-> TYPE_ERROR]
    ELSE Resolved(Join(ContentLines(revision, content), "\n"))

(***************************************************************************)
(* The conversation formatter, formatConversation: part_002 451-482.       *)
(***************************************************************************)
CitationLines(citation) ==
    <<"**Cited Source [" \o Field(citation, "index") \o "]**: contents://" \o
        Field(Field(citation, "content"), "id"),
      "**Cited Text**:\n" \o StrOr(Field(citation, "text"), "")>>

MessageLines(message) ==
    <<Field(message, "role") \o ":\n" \o Field(message, "message")>> \o
    (IF HasItems(message, "citations") THEN FlatMap(CitationLines, message.citations)
     ELSE <<>>) \o
    <<SEPARATOR>>

formatConversation(conversation) ==
    IF IsNull(conversation) THEN ""
    ELSE Join(<<"**Conversation ID:** " \o Field(conversation, "id")>> \o
              (IF HasItems(conversation, "messages")
               THEN FlatMap(MessageLines, conversation.messages) ELSE <<>>),
              "\n")

(***************************************************************************)
(* Dereference.  The entity answers of the remote platform: a record of    *)
(* the kind asked for, or null.  Every record carries a field the adapter  *)
(* does not list (owner).                                                  *)
(***************************************************************************)
FeedEntity ==
    [id |-> "abc123", name |-> "News", type |-> "RSS", readCount |-> "12",
     creationDate |-> "2025-01-01", state |-> "ENABLED", owner |-> "org-1"]

CollectionEntity ==
    [id |-> "abc123", name |-> "Reports", contents |-> <<[id |-> "c-1"], NullEntity>>,
     owner |-> "org-1"]

NamedEntity == [id |-> "abc123", name |-> "Default", owner |-> "org-1"]

ConversationEntity ==
    [id |-> "abc123",
     messages |-> <<[role |-> "USER", message |-> "Hello",
                     citations |-> <<[index |-> "1", content |-> [id |-> "c-1"],
                                      text |-> "Hi"]>>]>>]

ProjectEntity ==
    [id |-> "p-1", name |-> "Project", credits |-> "7", workflow |-> "null",
     quota |-> "null", owner |-> "org-1"]

GetOp(scheme) ==
    CASE scheme = "conversations" -> "getConversation"
      [] scheme = "feeds" -> "getFeed"
      [] scheme = "collections" -> "getCollection"
      [] scheme = "contents" -> "getContent"
      [] scheme = "workflows" -> "getWorkflow"
      [] scheme = "specifications" -> "getSpecification"
      [] OTHER -> "getProject"

EntityOf(op) ==
    CASE op = "getConversation" -> ConversationEntity
      [] op = "getFeed" -> FeedEntity
      [] op = "getCollection" -> CollectionEntity
      [] op = "getProject" -> ProjectEntity
      [] OTHER -> NamedEntity

EntityAnswers(op) == {Resolved(EntityOf(op)), Resolved(NullEntity)} \cup Rejections

\* queryProjectCredits and queryProjectTokens: the usage, as JSON text, or nothing.
UsageAnswers == {Resolved(v) : v \in {UNDEFINED, "42"}} \cup Rejections

\* One entry of the contents list of a read response.
TextContent(uri, text, mimeType) == [uri |-> uri, text |-> text, mimeType |-> mimeType]

BlobContent(uri, blob, mimeType) == [uri |-> uri, blob |-> blob, mimeType |-> mimeType]

ReadResult(contents) == [contents |-> contents]

\* A JSON array of strings, as JSON.stringify(..., null, 2) prints it inside an object.
JsonStringArray(items) ==
    IF items = <<>> THEN "[]"
    ELSE "[\n    " \o Join(Map(JsonString, items), ",\n    ") \o "\n  ]"

ContentUri(content) == "contents://" \o Field(content, "id")

\* The fields of the record in the order JSON.stringify visits them.
FieldOrder ==
    <<"id", "name", "type", "readCount", "creationDate", "state", "credits", "workflow",
      "quota", "owner">>

RawFields == {"readCount", "credits", "workflow", "quota"}

JsonOf(e, name) == IF name \in RawFields THEN Field(e, name) ELSE JsonString(Field(e, name))

\* JSON.stringify(entity, null, 2) of the whole record; "null" for a null entity, and
\* undefined (no text) for an undefined one.
JsonRecord(e) ==
    IF IsNull(e) THEN "null"
    ELSE JsonObject([k \in 1..Len(FieldOrder) |-> <<FieldOrder[k], JsonOf(e, FieldOrder[k])>>])

\* JSON.stringify({ f1: entity?.f1, ... }, null, 2)
JsonProjection(e, names) ==
    JsonObject([k \in 1..Len(names) |-> <<names[k], JsonOf(e, names[k])>>])

FeedFields ==
    <<"id", "name", "type", "readCount", "creationDate", "lastReadDate", "state", "error">>

\* A variant that prints the whole record for every scheme.
EntityTextWhole(revision, scheme, e) ==
    IF scheme = "conversations" THEN formatConversation(e) ELSE JsonRecord(e)

\* The text of a dereferenced entity other than a content and the project.
EntityText(revision, scheme, e) ==
    CASE scheme = "conversations" -> formatConversation(e)
      [] scheme = "feeds" -> JsonProjection(e, FeedFields)
      [] scheme = "collections" ->
            JsonObject(<<
                <<"id", JsonString(Field(e, "id"))>>,
                <<"name", JsonString(Field(e, "name"))>>,
                <<"contents",
                  JsonStringArray(Map(ContentUri,
                      NonNull(IF HasList(e, "contents") THEN e.contents ELSE <<>>)))>> >>)
      [] scheme \in {"workflows", "specifications"} ->
            IF revision = "index" THEN JsonProjection(e, <<"id", "name">>) ELSE JsonRecord(e)
      [] OTHER -> JsonProjection(e, <<"id", "name", "credits", "workflow", "quota">>)

EntityMimeType(scheme) == IF scheme = "conversations" THEN "text/markdown" ELSE "application/json"

\* try { ... return { contents: [ ... formatContent(response) ... ] } } catch { return { contents: [] } }
FormattedContent(revision, r, content) ==
    IF formatContent(revision, content).ok
    THEN Return(r, ReadResult(<<TextContent(r.args.uri,
                                            formatContent(revision, content).val,
                                            "text/markdown")>>))
    ELSE Return(r, ReadResult(<<>>))

\* The read callback of a bare list template: async (uri, variables) => ({ contents: [] })
Begin_readEmpty(r) == Return(r, ReadResult(<<>>))

\* A variant of the part_002 callback without the catch block.
Resume_readContentRethrowing(r, ans) ==
    IF ~ans.ok THEN Throw(r, ans.msg)
    ELSE FormattedContent("resources", r, ans.val)

\* contents://{id}, part_002 253-281
Resume_readContent(r, ans) ==
    IF ~ans.ok THEN Return(r, ReadResult(<<>>))
    ELSE FormattedContent("resources", r, ans.val)

\* A variant of the index.ts callback that returns the binary entry first.
Resume_readContentIndexBlobFirst(r, ans) ==
    IF ~ans.ok THEN Return(r, ReadResult(<<>>))
    ELSE IF Pending(r).op = "getContent"
    THEN IF ~IsNull(ans.val) /\ Field(ans.val, "fileType") = "IMAGE"
            /\ Truthy(Field(ans.val, "uri"))
         THEN Await([r EXCEPT !.locals = [content |-> ans.val]],
                    [op |-> "fetch", url |-> ans.val.uri], TRUE)
         ELSE FormattedContent("index", r, ans.val)
    ELSE IF ~ans.val.ok \/ ~formatContent("index", r.locals.content).ok
    THEN Return(r, ReadResult(<<>>))
    ELSE Return(r, ReadResult(<<
             BlobContent(r.args.uri, ans.val.data, MimeTypeOf(ans.val)),
             TextContent(r.args.uri, formatContent("index", r.locals.content).val,
                         "text/markdown") >>))

\* contents://{id}, index.ts 2228-2298: an image is fetched from its uri.
\* A variant of the index.ts callback that falls back to the text entry when the image
\* cannot be fetched.
Resume_readContentIndexTextOnFailure(r, ans) ==
    IF Pending(r).op = "getContent"
    THEN IF ~ans.ok THEN Return(r, ReadResult(<<>>))
         ELSE IF ~IsNull(ans.val) /\ Field(ans.val, "fileType") = "IMAGE"
                 /\ Truthy(Field(ans.val, "uri"))
         THEN Await([r EXCEPT !.locals = [content |-> ans.val]],
                    [op |-> "fetch", url |-> ans.val.uri], TRUE)
         ELSE FormattedContent("index", r, ans.val)
    ELSE IF ~ans.ok \/ ~ans.val.ok
    THEN FormattedContent("index", r, r.locals.content)
    ELSE IF ~formatContent("index", r.locals.content).ok
    THEN Return(r, ReadResult(<<>>))
    ELSE Return(r, ReadResult(<<
             TextContent(r.args.uri, formatContent("index", r.locals.content).val,
                         "text/markdown"),
             BlobContent(r.args.uri, ans.val.data, MimeTypeOf(ans.val)) >>))

Resume_readContentIndex(r, ans) ==
    IF ~ans.ok THEN Return(r, ReadResult(<<>>))
    ELSE IF Pending(r).op = "getContent"
    THEN IF ~IsNull(ans.val) /\ Field(ans.val, "fileType") = "IMAGE"
            /\ Truthy(Field(ans.val, "uri"))
         THEN Await([r EXCEPT !.locals = [content |-> ans.val]],
                    [op |-> "fetch", url |-> ans.val.uri], TRUE)
         ELSE FormattedContent("index", r, ans.val)
    ELSE IF ~ans.val.ok \/ ~formatContent("index", r.locals.content).ok
    THEN Return(r, ReadResult(<<>>))
    ELSE Return(r, ReadResult(<<
             TextContent(r.args.uri, formatContent("index", r.locals.content).val,
                         "text/markdown"),
             BlobContent(r.args.uri, ans.val.data, MimeTypeOf(ans.val)) >>))

\* projects://, part_002 397-448: credits, then tokens, then the project.
USAGE_DURATION == "P1D"

UsageQuery(op) == [op |-> op, duration |-> USAGE_DURATION]

ProjectLocals == [credits |-> UNDEFINED, tokens |-> UNDEFINED]

\* A variant that starts both usage queries before awaiting either.
Begin_readProjectParallel(r) ==
    Await(Await([r EXCEPT !.locals = ProjectLocals],
                UsageQuery("queryProjectCredits"), TRUE),
          UsageQuery("queryProjectTokens"), TRUE)

Begin_readProject(r) ==
    Await([r EXCEPT !.locals = ProjectLocals], UsageQuery("queryProjectCredits"), TRUE)

Resume_readProject(r, ans) ==
    IF ~ans.ok THEN Return(r, ReadResult(<<>>))
    ELSE CASE Pending(r).op = "queryProjectCredits" ->
                Await([r EXCEPT !.locals.credits = ans.val],
                      UsageQuery("queryProjectTokens"), TRUE)
           [] Pending(r).op = "queryProjectTokens" ->
                Await([r EXCEPT !.locals.tokens = ans.val], [op |-> "getProject"], TRUE)
           [] OTHER ->
                Return(r, ReadResult(<<TextContent(r.args.uri,
                    JsonObject(<<
                        <<"name", JsonString(Field(ans.val, "name"))>>,
                        <<"workflow", Field(ans.val, "workflow")>>,
                        <<"quota", Field(ans.val, "quota")>>,
                        <<"credits", r.locals.credits>>,
                        <<"tokens", r.locals.tokens>> >>),
                    "application/json")>>))

\* Every other {id} template: one get, one text entry.
Resume_readEntity(revision, r, ans) ==
    IF ~ans.ok THEN Return(r, ReadResult(<<>>))
    ELSE Return(r, ReadResult(<<TextContent(r.args.uri,
                                            EntityText(revision, r.name, ans.val),
                                            EntityMimeType(r.name))>>))

\* client.getX(id); client.getProject() takes no id.
GetRequest(scheme, id) ==
    IF scheme = "projects" THEN [op |-> GetOp(scheme)] ELSE [op |-> GetOp(scheme), id |-> id]

\* A variant that answers a dereference from what an earlier one fetched.
Begin_readCached(revision, r) ==
    IF r.args.read = "empty" THEN Begin_readEmpty(r)
    ELSE IF r.name = "projects" /\ revision = "resources" THEN Begin_readProject(r)
    ELSE IF gets > 0
    THEN Return(r, ReadResult(<<TextContent(r.args.uri, "cached", "text/markdown")>>))
    ELSE Await(r, GetRequest(r.name, r.args.id), TRUE)

\* The read callback from its call to its first await (or its end).
Begin_read(revision, r) ==
    IF r.args.read = "empty" THEN Begin_readEmpty(r)
    ELSE IF r.name = "projects" /\ revision = "resources" THEN Begin_readProject(r)
    ELSE Await(r, GetRequest(r.name, r.args.id), TRUE)

Resume_read(revision, r, ans) ==
    IF r.name = "projects" /\ revision = "resources" THEN Resume_readProject(r, ans)
    ELSE IF r.name = "contents"
    THEN (IF revision = "index" THEN Resume_readContentIndex(r, ans)
          ELSE Resume_readContent(r, ans))
    ELSE Resume_readEntity(revision, r, ans)

ReadAnswers(r) ==
    LET op == Pending(r).op
    IN  CASE op = "fetch" -> FetchAnswers
          [] op = "getContent" -> GetContentAnswers
          [] op \in {"queryProjectCredits", "queryProjectTokens"} -> UsageAnswers
          [] OTHER -> EntityAnswers(op)

(***************************************************************************)
(* The process.                                                            *)
(***************************************************************************)
EXIT_FAILURE == 1

Begin(r) ==
    CASE r.kind = "tool" -> BeginTool(r)
      [] r.kind = "list" -> Begin_list(r)
      [] OTHER -> Begin_read(rev, r)

Resume(r, ans) ==
    CASE r.kind = "tool" -> ResumeTool(r, ans)
      [] r.kind = "list" -> Resume_list(r, ans)
      [] OTHER -> Resume_read(rev, r, ans)

Answers(r) ==
    CASE r.kind = "tool" -> ToolAnswers(r)
      [] r.kind = "list" -> (IF r.name = "projects" THEN ProjectAnswers ELSE ListAnswers)
      [] OTHER -> ReadAnswers(r)

\* A dereference of a URI with an id.
IsDereference(r) == r.kind = "read" /\ r.args.id # UNDEFINED

\* The remote get operations a step of a dereference issued: before to after.
NewGets(before, after) ==
    IF IsDereference(after) /\ Len(after.ops) > Len(before.ops)
       /\ Pending(after).op = GetOp(after.name)
    THEN 1 ELSE 0

\* An invocation starts and runs to its first await (or to its end).
Start(i, r) ==
    /\ alive
    /\ inv[i].pc = "idle"
    /\ IsDereference(r) => reads < MaxReads
    /\ inv' = [inv EXCEPT ![i] = Begin(r)]
    /\ alive' = (Begin(r).pc # "exited")
    /\ exitCode' = IF Begin(r).pc = "exited" THEN EXIT_FAILURE ELSE exitCode
    /\ reads' = reads + (IF IsDereference(r) THEN 1 ELSE 0)
    /\ gets' = gets + NewGets(r, Begin(r))
    /\ UNCHANGED <<rev, env>>

\* The peer calls one of the tools.
CallToolIn(i, tools) ==
    \E tool \in tools : \E args \in ToolArgs(tool) : Start(i, Begun("tool", tool, args))

CallTool(i) == CallToolIn(i, Tools)

\* The peer lists the resources of a template that has a list callback.
ListResources(i) ==
    \E reg \in registerResources(rev) :
        /\ reg.list
        /\ Start(i, Begun("list", reg.scheme, <<>>))

\* The peer reads a URI that a registered template of one of the schemes matches.
ReadResourceIn(i, schemes) ==
    \E reg \in registerResources(rev) : \E id \in ResourceIds :
        /\ reg.scheme \in schemes
        /\ Start(i, Begun("read", reg.scheme,
                          [uri |-> UriOf(reg, id),
                           id |-> IF reg.withId THEN id ELSE UNDEFINED,
                           read |-> reg.read]))

ReadResource(i) == ReadResourceIn(i, Schemes)

\* The pending remote call of invocation i settles and the handler runs on.
Settled(r, ans) == Resume([r EXCEPT !.answers = Append(@, ans)], ans)

\* A variant in which the handlers of one registration keep their working values in
\* one shared place: a resumed handler sees what another invocation wrote last.
SettleSharingLocals(i) ==
    /\ alive
    /\ inv[i].pc = "await"
    /\ \E ans \in Answers(inv[i]) :
          LET others == {j \in DOMAIN inv \ {i} :
                            /\ inv[j].kind = inv[i].kind
                            /\ inv[j].name = inv[i].name
                            /\ DOMAIN inv[j].locals = DOMAIN inv[i].locals}
              mine == IF others = {} THEN inv[i]
                      ELSE [inv[i] EXCEPT !.locals = inv[CHOOSE j \in others : TRUE].locals]
          IN  /\ inv' = [inv EXCEPT ![i] = Settled(mine, ans)]
              /\ gets' = gets + NewGets(inv[i], Settled(mine, ans))
    /\ UNCHANGED <<rev, env, alive, exitCode, reads>>

\* A variant in which a pending call is settled and its handler resumed even after
\* process.exit.
SettleAfterExit(i) ==
    /\ inv[i].pc = "await"
    /\ \E ans \in Answers(inv[i]) :
          /\ inv' = [inv EXCEPT ![i] = Settled(inv[i], ans)]
          /\ gets' = gets + NewGets(inv[i], Settled(inv[i], ans))
    /\ UNCHANGED <<rev, env, alive, exitCode, reads>>

Settle(i) ==
    /\ alive
    /\ inv[i].pc = "await"
    /\ \E ans \in Answers(inv[i]) :
          /\ inv' = [inv EXCEPT ![i] = Settled(inv[i], ans)]
          /\ gets' = gets + NewGets(inv[i], Settled(inv[i], ans))
    /\ UNCHANGED <<rev, env, alive, exitCode, reads>>

\* The host sends what the handler returned (or its failure) to the peer; the slot is free.
Respond(i) ==
    /\ alive
    /\ inv[i].pc \in {"done", "threw"}
    /\ inv' = [inv EXCEPT ![i] = Idle]
    /\ UNCHANGED <<rev, env, alive, exitCode, reads, gets>>

Revisions == {"index", "resources"}

\* The server handling one request at a time, under either revision of the registry.
Init ==
    /\ rev \in Revisions
    /\ env \in EnvChoices
    /\ alive = TRUE
    /\ exitCode = 0
    /\ inv = <<Idle>>
    /\ reads = 0
    /\ gets = 0

Next ==
    \/ \E i \in DOMAIN inv : CallTool(i)
    \/ \E i \in DOMAIN inv : ListResources(i)
    \/ \E i \in DOMAIN inv : ReadResource(i)
    \/ \E i \in DOMAIN inv : Settle(i)
    \/ \E i \in DOMAIN inv : Respond(i)

Spec == Init /\ [][Next]_vars

(***************************************************************************)
(* The server with MaxConc invocations in flight at once: the tools that   *)
(* read a credential and the dereferences of a content and of the project. *)
(***************************************************************************)
ConcTools == {"ingestSlackMessages", "sendEmailNotification"}

ConcSchemes == {"contents", "projects"}

ConcEnvChoices ==
    {e \in EnvChoices :
        /\ \A n \in EnvNames \ {"SLACK_BOT_TOKEN"} : e[n] = "tok"
        /\ e["SLACK_BOT_TOKEN"] \in {UNDEFINED, "tok"}}

InitConc ==
    /\ rev \in Revisions
    /\ env \in ConcEnvChoices
    /\ alive = TRUE
    /\ exitCode = 0
    /\ inv = [i \in 1..MaxConc |-> Idle]
    /\ reads = 0
    /\ gets = 0

NextConc ==
    \/ \E i \in DOMAIN inv : CallToolIn(i, ConcTools)
    \/ \E i \in DOMAIN inv : ReadResourceIn(i, ConcSchemes)
    \/ \E i \in DOMAIN inv : Settle(i)
    \/ \E i \in DOMAIN inv : Respond(i)

SpecConc == InitConc /\ [][NextConc]_vars

(***************************************************************************)
(* The content formatter under contents of every shape: the dereference of *)
(* contents://{id} when the remote platform answers with any record of     *)
(* FormatContents.                                                         *)
(***************************************************************************)
MaxExtra == 1       \* elements of a list beyond the number the formatter keeps

\* A record without fields.
NoFields == [f \in {} |-> ""]

\* The field is absent, or holds one of the values.
Opt(name, values) == {NoFields} \cup {name :> v : v \in values}

\* Every record made of one part of A and one part of B.
Cross(A, B) == {a @@ b : a \in A, b \in B}

ReportDocument == [title |-> "Q1 Report", author |-> "J. Doe"]

\* The record of the dereference scenario: a document with its flat markdown.
ReportContent ==
    [id |-> "abc123", type |-> "FILE", fileType |-> "DOCUMENT", fileName |-> "report.pdf",
     document |-> ReportDocument, markdown |-> "# Report body"]

ContentTypeNames == {"FILE", "PAGE", "EMAIL", "TEXT"}

\* Identity and metadata: type, name, file name, source uri, downloadable URIs, dates.
HeaderContents ==
    Cross({[id |-> "abc123"]},
    Cross(Opt("type", ContentTypeNames),
    Cross(Opt("name", {"Home"}),
    Cross({NoFields, [fileType |-> "DOCUMENT", fileName |-> "report.pdf"]},
    Cross(Opt("uri", {"https://src/raw"}),
          {NoFields,
           [masterUri |-> "https://dl/original", imageUri |-> "https://dl/image",
            audioUri |-> "https://dl/audio", creationDate |-> "2025-01-02",
            originalDate |-> "2024-12-31"]})))))

PageOne ==
    [index |-> 0, chunks |-> <<[text |-> "Page one text"], NullEntity, [text |-> ""]>>]

PageTwo == [index |-> 1, chunks |-> <<[text |-> "Second page"]>>]

PageWithoutChunks == [index |-> 2]

SegmentOne == [startTime |-> "00:00:00", endTime |-> "00:00:05", text |-> "Hello there"]

FrameOne == [index |-> 0, text |-> "A title card"]

\* The body: pages, transcript segments, frames and flat markdown, each absent, empty
\* or filled.
BodyContents ==
    Cross({[id |-> "abc123", type |-> "FILE", fileType |-> "DOCUMENT"],
           [id |-> "abc123", type |-> "PAGE", name |-> "Home"]},
    Cross(Opt("pages", {<<>>, <<PageOne>>, <<PageWithoutChunks>>, <<PageOne, PageTwo>>}),
    Cross(Opt("segments", {<<>>, <<SegmentOne>>}),
    Cross(Opt("frames", {<<>>, <<FrameOne>>}),
          Opt("markdown", {"", "# Report body"})))))

\* n collection memberships, the second of them null.
Memberships(n) ==
    [k \in 1..n |-> IF k = 2 THEN NullEntity
                    ELSE [id |-> "col-" \o NumStr(k), name |-> "Set " \o NumStr(k)]]

\* n links of a page.
Links(n) == [k \in 1..n |-> [linkType |-> "WEB", uri |-> "https://l/" \o NumStr(k)]]

ListLengths(kept) == {0, 3, kept} \cup {kept + k : k \in 1..(MaxExtra + 1)}

\* Lists longer than the formatter keeps: memberships, and links on a page and on a file.
ListContents ==
    {[id |-> "abc123", type |-> "PAGE", collections |-> Memberships(n)] :
        n \in ListLengths(MAX_COLLECTIONS)}
    \cup {[id |-> "abc123", type |-> t, links |-> Links(n)] :
            t \in {"PAGE", "FILE"}, n \in ListLengths(MAX_LINKS) \cup ListLengths(MAX_LINKS_INDEX)}
    \cup {[id |-> "abc123", type |-> "TEXT", parent |-> [id |-> "par-1"],
           children |-> <<[id |-> "kid-1"], NullEntity, [id |-> "kid-2"]>>]}

Person == [id |-> "obs-1", name |-> "Ada"]

\* Observations: whole, null, with a null target, without a target, without a type.
ObservationLists ==
    {<<[type |-> "PERSON", observable |-> Person], NullEntity>>,
     <<[type |-> "LABEL", observable |-> NullEntity]>>,
     <<[type |-> "PERSON"]>>,
     <<[observable |-> Person]>>}

Recipient == [name |-> "Ada", email |-> "ada@example.com"]

\* Sub-records with all, some or none of their fields; recipients without a name.
SubRecordContents ==
    Cross({[id |-> "abc123", type |-> "EMAIL"]},
          Opt("email", {NoFields,
                        [subject |-> "Hi", to |-> <<Recipient>>],
                        [subject |-> "Hi", labels |-> <<"inbox", "work">>,
                         from |-> <<[email |-> "bob@example.com"]>>],
                        [to |-> <<Recipient, NullEntity>>]}))
    \cup Cross({[id |-> "abc123", type |-> "ISSUE", name |-> "Bug"]},
               Opt("issue", {NoFields, [title |-> "Crash", status |-> "Open"],
                             [identifier |-> "BUG-1", labels |-> <<"p1", "ui">>],
                             [title |-> "Crash", labels |-> <<>>]}))
    \cup Cross({[id |-> "abc123", type |-> "FILE", fileType |-> "DOCUMENT",
                 fileName |-> "report.pdf"]},
         Cross(Opt("document", {NoFields, [title |-> "Q1 Report"], ReportDocument}),
         Cross(Opt("audio", {NoFields, [title |-> "Show", author |-> "Host A",
                                        episode |-> "12", series |-> "Talks"]}),
               Opt("image", {NoFields, [description |-> "A cat", software |-> "GIMP",
                                        make |-> "Canon", model |-> "R5"]}))))
    \cup Cross({[id |-> "abc123", type |-> "TEXT", name |-> "Note"]},
               Opt("observations", ObservationLists))

FormatContents ==
    {ReportContent} \cup HeaderContents \cup BodyContents \cup ListContents
    \cup SubRecordContents

\* What the pending remote call answers: any content for getContent.
FormatAnswers(r) ==
    IF Pending(r).op = "getContent" THEN {Resolved(c) : c \in FormatContents}
    ELSE Answers(r)

\* The remote platform answers the pending getContent with a content of any shape.
SettleContent(i) ==
    /\ alive
    /\ inv[i].pc = "await"
    /\ \E ans \in FormatAnswers(inv[i]) :
          /\ inv' = [inv EXCEPT ![i] = Settled(inv[i], ans)]
          /\ gets' = gets + NewGets(inv[i], Settled(inv[i], ans))
    /\ UNCHANGED <<rev, env, alive, exitCode, reads>>

InitFormat ==
    /\ rev \in Revisions
    /\ env = [n \in EnvNames |-> "tok"]
    /\ alive = TRUE
    /\ exitCode = 0
    /\ inv = <<Idle>>
    /\ reads = 0
    /\ gets = 0

NextFormat ==
    \/ \E i \in DOMAIN inv : ReadResourceIn(i, {"contents"})
    \/ \E i \in DOMAIN inv : SettleContent(i)
    \/ \E i \in DOMAIN inv : Respond(i)

SpecFormat == InitFormat /\ [][NextFormat]_vars

(***************************************************************************)
(* The results-to-markup formatter.  The sources have no such function     *)
(* (their retrieveSources handlers print one JSON block per result); it is *)
(* taken from section 4.2 of the specification: one wrapping element, one  *)
(* child element per result, every non-null field outside the exclusion    *)
(* set as an attribute named in kebab case, and the metadata and the text  *)
(* as the body.  A field value is <<>> (null) or <<v>>.                    *)
(***************************************************************************)
UPPER_CASE == "ABCDEFGHIJKLMNOPQRSTUVWXYZ"

LOWER_CASE == "abcdefghijklmnopqrstuvwxyz"

\* An upper-case letter becomes a hyphen and the lower-case letter.
KebabChar(ch) ==
    IF \E k \in 1..26 : SubSeq(UPPER_CASE, k, k) = ch
    THEN "-" \o SubSeq(LOWER_CASE, CHOOSE k \in 1..26 : SubSeq(UPPER_CASE, k, k) = ch,
                       CHOOSE k \in 1..26 : SubSeq(UPPER_CASE, k, k) = ch)
    ELSE ch

RECURSIVE KebabCase(_)
KebabCase(name) ==
    IF name = "" THEN ""
    ELSE KebabChar(SubSeq(name, 1, 1)) \o KebabCase(SubSeq(name, 2, Len(name)))

\* The fields of a result record, in the order the record lists them.
ResultFields ==
    <<"content", "type", "pageNumber", "frameNumber", "startTime", "endTime",
      "relevance", "metadata", "text">>

ExcludedFields == {"metadata", "text", "content", "type"}

\* name="value", without escaping; nothing for a null value or an excluded field.
\* A variant that writes a null value as the attribute value "null".
ResultAttributeWithNull(result, name) ==
    IF name \in ExcludedFields THEN ""
    ELSE " " \o KebabCase(name) \o "=\"" \o
         (IF result[name] = <<>> THEN "null" ELSE result[name][1]) \o "\""

ResultAttribute(result, name) ==
    IF name \in ExcludedFields \/ result[name] = <<>> THEN ""
    ELSE " " \o KebabCase(name) \o "=\"" \o result[name][1] \o "\""

RECURSIVE ResultAttributes(_, _)
ResultAttributes(result, names) ==
    IF names = <<>> THEN ""
    ELSE ResultAttribute(result, Head(names)) \o ResultAttributes(result, Tail(names))

\* The metadata, then the text, each if any, joined by a newline.
ResultBody(result) == Join(result.metadata \o result.text, "\n")

ResultElement(result) ==
    "<result" \o ResultAttributes(result, ResultFields) \o ">" \o ResultBody(result)
    \o "</result>"

formatResults(results) ==
    Join(<<"<results>">> \o Map(ResultElement, results) \o <<"</results>">>, "\n")

\* Result records: a page hit or a transcript hit, with or without metadata and text.
MarkupResults ==
    {[content |-> <<"abc123">>, type |-> <<"Document">>, pageNumber |-> p,
      frameNumber |-> <<>>, startTime |-> t, endTime |-> t, relevance |-> <<"0.9">>,
      metadata |-> m, text |-> x] :
        p \in {<<>>, <<"3">>}, t \in {<<>>, <<"00:01">>},
        m \in {<<>>, <<"Title: Q1 Report">>}, x \in {<<>>, <<"Report body">>}}

MarkupAnswers == {Resolved(Results(q)) : q \in SeqsUpTo(MarkupResults, MaxResults)}

\* The retrieval whose results are handed to the formatter.
Begin_retrieveMarkup(r) == Await(r, [op |-> "retrieveSources"], TRUE)

Resume_retrieveMarkup(r, ans) ==
    IF ~ans.ok THEN Return(r, ErrorResult(ans.msg))
    ELSE Return(r, ToolResult(formatResults(ResultsOrEmpty(ans.val))))

CallMarkup(i) ==
    /\ alive
    /\ inv[i].pc = "idle"
    /\ inv' = [inv EXCEPT ![i] = Begin_retrieveMarkup(Begun("tool", "retrieveSources", <<>>))]
    /\ UNCHANGED <<rev, env, alive, exitCode, reads, gets>>

SettleMarkup(i) ==
    /\ alive
    /\ inv[i].pc = "await"
    /\ \E ans \in MarkupAnswers \cup Rejections :
          inv' = [inv EXCEPT ![i] =
                    Resume_retrieveMarkup([inv[i] EXCEPT !.answers = Append(@, ans)], ans)]
    /\ UNCHANGED <<rev, env, alive, exitCode, reads, gets>>

NextMarkup ==
    \/ \E i \in DOMAIN inv : CallMarkup(i)
    \/ \E i \in DOMAIN inv : SettleMarkup(i)
    \/ \E i \in DOMAIN inv : Respond(i)

SpecMarkup == InitFormat /\ [][NextMarkup]_vars

(***************************************************************************)
(* The server when every remote call settles: a call that is pending is    *)
(* eventually resolved or rejected.                                        *)
(***************************************************************************)
SpecLive == Init /\ [][Next]_vars /\ WF_vars(\E i \in {1} : Settle(i))

(***************************************************************************)
(* Properties.                                                             *)
(***************************************************************************)
Finished(r) == r.pc \in {"done", "threw"}

LastAnswer(r) == r.answers[Len(r.answers)]

\* The last remote call of the invocation rejected.
Rejected(r) == r.answers # <<>> /\ ~LastAnswer(r).ok

\* The remote client operations among the requests of an invocation (the image fetch
\* of retrieveImages goes to the network, not through the client).
ClientOps(r) == {k \in 1..Len(r.ops) : r.ops[k].op # "fetch"}

\* C1: for every tool and every remote client operation its handler issues, when the
\* operation rejects with message m the invocation returns exactly one text block
\* "Error: " followed by m with the error flag set; no exception escapes the handler
\* and the process keeps running.
C1_RejectionReturnsErrorResult ==
    \A i \in DOMAIN inv :
        (inv[i].kind = "tool" /\ Rejected(inv[i]) /\ Pending(inv[i]).op # "fetch")
        => /\ inv[i].pc = "done"
           /\ inv[i].response =
                [content |-> <<[type |-> "text",
                                text |-> "Error: " \o LastAnswer(inv[i]).msg]>>,
                 isError |-> TRUE]
           /\ alive

\* C2: a tool invocation whose required configuration value is absent terminates the
\* whole process with a non-zero exit status, before any remote operation is issued,
\* and no response is produced for the invocation.
C2_MissingCredentialExits ==
    \A i \in DOMAIN inv :
        (inv[i].kind = "tool"
         /\ \E k \in 1..Len(RequiredEnv(inv[i].name)) :
                env[RequiredEnv(inv[i].name)[k]] = UNDEFINED)
        => /\ inv[i].pc = "exited"
           /\ ~alive
           /\ exitCode # 0
           /\ inv[i].ops = <<>>
           /\ inv[i].response = NoResponse

C2_Witness ==
    \E i \in DOMAIN inv :
        /\ inv[i].name = "ingestSlackMessages"
        /\ env["SLACK_BOT_TOKEN"] = UNDEFINED
        /\ inv[i].pc = "exited"
        /\ exitCode = EXIT_FAILURE

\* C3: when the remote query of a listing throws, the listing returns the empty
\* resource list and no error reaches the peer.
C3_ListFailureIsEmptyList ==
    \A i \in DOMAIN inv :
        inv[i].kind = "list"
        => /\ inv[i].pc # "threw"
           /\ Rejected(inv[i])
              => (inv[i].pc = "done" /\ inv[i].response = [resources |-> <<>>])

C3_Witness ==
    \E i \in DOMAIN inv :
        /\ inv[i].kind = "list"
        /\ inv[i].name = "feeds"
        /\ Rejected(inv[i])
        /\ inv[i].pc = "done"

\* A step of the dereference failed: its last remote call rejected, or the image
\* fetch answered with a status that is not ok.
ReadFailed(r) ==
    \/ Rejected(r)
    \/ /\ r.answers # <<>>
       /\ Len(r.answers) = Len(r.ops)
       /\ Pending(r).op = "fetch"
       /\ LastAnswer(r).ok
       /\ ~LastAnswer(r).val.ok

\* C4: when any step of a dereference fails (the remote get throws, the image fetch
\* fails), the dereference returns the empty contents list and no error reaches the
\* peer.
C4_ReadFailureIsEmptyContents ==
    \A i \in DOMAIN inv :
        inv[i].kind = "read"
        => /\ inv[i].pc # "threw"
           /\ ReadFailed(inv[i])
              => (inv[i].pc = "done" /\ inv[i].response = [contents |-> <<>>])

C4_Witness ==
    \E i \in DOMAIN inv :
        /\ inv[i].kind = "read"
        /\ inv[i].name = "contents"
        /\ Len(inv[i].answers) = 1
        /\ Rejected(inv[i])
        /\ inv[i].response = [contents |-> <<>>]

\* The number of remote client operations of a configureProject call that nothing
\* stops: the workflow and the project update, and one specification per enabled flag.
ConfigureOps(args) ==
    2 + (IF args.enablePreparation THEN 1 ELSE 0) + (IF args.enableExtraction THEN 1 ELSE 0)

RECURSIVE Replay(_, _)
Replay(r, answers) ==
    IF answers = <<>> \/ r.pc # "await" THEN r
    ELSE Replay(Settled(r, Head(answers)), Tail(answers))

Alone(r) == Replay(Begin(Begun(r.kind, r.name, r.args)), r.answers)

C7_EveryDereferenceFetches ==
    /\ gets = reads
    /\ \A i \in DOMAIN inv :
          IsDereference(inv[i])
          => /\ inv[i].ops # <<>>
             /\ inv[i].ops[1].op = GetOp(inv[i].name)
             /\ inv[i].name # "projects" => inv[i].ops[1].id = inv[i].args.id
             /\ inv[i].pc = "done"
                => (inv[i].answers # <<>> /\ inv[i].response = Alone(inv[i]).response)

C7_Witness ==
    /\ reads = 2
    /\ gets = 2
    /\ \E i \in DOMAIN inv :
          /\ IsDereference(inv[i])
          /\ inv[i].args.uri = "contents://abc123"
          /\ inv[i].pc = "done"
          /\ inv[i].response.contents # <<>>

\* The templates registered for a scheme.
ListsOn(scheme) ==
    \E reg \in registerResources(rev) : reg.scheme = scheme /\ ~reg.withId /\ reg.list

ReadsOn(scheme) ==
    \E reg \in registerResources(rev) :
        reg.scheme = scheme /\ reg.withId /\ reg.read = "entity"

C9_ListingPairs ==
    \A i \in DOMAIN inv :
        (inv[i].kind = "list" /\ inv[i].pc = "done" /\ LastAnswer(inv[i]).ok)
        => LET val == LastAnswer(inv[i]).val
               ents == IF inv[i].name = "projects" THEN <<val>>
                       ELSE IF "results" \in DOMAIN val THEN val.results ELSE <<>>
               keep == {k \in 1..Len(ents) : "null" \notin DOMAIN ents[k]}
               listed == inv[i].response.resources
           IN  /\ Len(listed) = Cardinality(keep)
               /\ \A k \in keep :
                     LET at == Cardinality({j \in keep : j <= k})
                     IN  /\ listed[at].name = ents[k].name
                         /\ listed[at].uri = inv[i].name \o "://" \o ents[k].id

C9_Witness ==
    \E i \in DOMAIN inv :
        /\ inv[i].kind = "list"
        /\ inv[i].name = "feeds"
        /\ inv[i].pc = "done"
        /\ LastAnswer(inv[i]) = Resolved(Results(<<NullEntity, Beta>>))
        /\ Len(inv[i].response.resources) = 1
        /\ inv[i].response.resources[1].uri = "feeds://b2"

\* A finished dereference of contents://{id} whose content is an image.
ImageRead(r) ==
    /\ IsDereference(r)
    /\ r.name = "contents"
    /\ r.pc = "done"
    /\ r.answers[1].ok
    /\ "fileType" \in DOMAIN r.answers[1].val
    /\ r.answers[1].val.fileType = "IMAGE"

\* C10 as stated: dereferencing contents://{id} for a content whose file type is Image
\* returns exactly two blocks: the formatted text, then the image bytes with the
\* detected media type.
C10_ImageTwoBlocks ==
    \A i \in DOMAIN inv :
        ImageRead(inv[i])
        => /\ Len(inv[i].response.contents) = 2
           /\ "text" \in DOMAIN inv[i].response.contents[1]
           /\ "blob" \in DOMAIN inv[i].response.contents[2]

\* C10 amended: in the index.ts revision, when the record of the image carries a uri,
\* the dereference fetches it and, if the fetch succeeds, returns exactly two blocks:
\* the formatted text, then the base64 image bytes with the content type of the fetch
\* response (application/octet-stream when it has none); if the fetch fails it returns
\* no block.  Without a uri, and always in the part_002 revision, it returns the text
\* block alone.
C10_ImageBlocks ==
    \A i \in DOMAIN inv :
        ImageRead(inv[i])
        => LET r == inv[i]
               blocks == r.response.contents
           IN  IF rev = "index" /\ "uri" \in DOMAIN r.answers[1].val
                  /\ r.answers[1].val.uri # ""
               THEN /\ Len(r.answers) = 2
                    /\ r.ops[2] = [op |-> "fetch", url |-> r.answers[1].val.uri]
                    /\ IF r.answers[2].ok /\ r.answers[2].val.ok
                       THEN /\ Len(blocks) = 2
                            /\ "text" \in DOMAIN blocks[1]
                            /\ blocks[1].mimeType = "text/markdown"
                            /\ blocks[2] =
                                 [uri |-> r.args.uri,
                                  blob |-> r.answers[2].val.data,
                                  mimeType |->
                                     IF r.answers[2].val.contentType = UNDEFINED
                                     THEN "application/octet-stream"
                                     ELSE r.answers[2].val.contentType]
                       ELSE blocks = <<>>
               ELSE /\ Len(r.answers) = 1
                    /\ Len(blocks) = 1
                    /\ "text" \in DOMAIN blocks[1]

C10_Witness ==
    \E i \in DOMAIN inv :
        /\ rev = "index"
        /\ ImageRead(inv[i])
        /\ Len(inv[i].response.contents) = 2
        /\ inv[i].response.contents[2].mimeType = "application/octet-stream"

\* A dereference of the singleton projects:// of part_002.
ProjectRead(r) == r.kind = "read" /\ r.args.uri = "projects://" /\ r.args.read = "entity"

\* C11: the projects:// dereference issues the credits query, then the tokens query,
\* then the project fetch, each only after the one before it has been answered: never
\* are two remote calls of one invocation outstanding, and a response is rendered only
\* after both usage queries and the fetch have completed.
C11_ProjectQueriesSequential ==
    \A i \in DOMAIN inv :
        ProjectRead(inv[i])
        => LET r == inv[i]
               order == <<"queryProjectCredits", "queryProjectTokens", "getProject">>
           IN  /\ Len(r.ops) <= 3
               /\ \A k \in 1..Len(r.ops) : r.ops[k].op = order[k]
               /\ \A k \in 1..Len(r.ops) : k <= 2 => r.ops[k].duration = "P1D"
               /\ Len(r.ops) - Len(r.answers) = (IF r.pc = "await" THEN 1 ELSE 0)
               /\ (r.pc = "done" /\ r.response.contents # <<>>)
                  => (Len(r.answers) = 3 /\ \A k \in 1..3 : r.answers[k].ok)

C11_Witness ==
    \E i \in DOMAIN inv :
        /\ ProjectRead(inv[i])
        /\ inv[i].pc = "done"
        /\ Len(inv[i].answers) = 3
        /\ inv[i].response.contents # <<>>
        /\ inv[i].answers[1].val = "42"

\* text.includes(part)
Contains(text, part) ==
    \E k \in 1..(Len(text) - Len(part) + 1) : SubSeq(text, k, k + Len(part) - 1) = part

\* A finished dereference of a feed, workflow, specification or project that returned
\* the JSON of a remote record that is not null.
JsonRead(r) ==
    /\ r.kind = "read"
    /\ r.args.read = "entity"
    /\ r.name \in {"feeds", "workflows", "specifications", "projects"}
    /\ r.pc = "done"
    /\ r.response.contents # <<>>
    /\ "id" \in DOMAIN LastAnswer(r).val

\* C12 as stated: the JSON of a dereferenced feed, workflow, specification or project
\* carries only the curated fields; a field of the remote record outside them (here
\* owner) never appears.
C12_OnlyCuratedFields ==
    \A i \in DOMAIN inv :
        JsonRead(inv[i])
        => /\ ~Contains(inv[i].response.contents[1].text, "owner")
           /\ ~Contains(inv[i].response.contents[1].text, LastAnswer(inv[i]).val.owner)

\* C12 amended: the JSON of a dereferenced feed or project, and in the index.ts
\* revision of a workflow or specification, carries only the curated fields; in the
\* part_002 revision the JSON of a workflow or specification is the whole remote record,
\* every field of it included.
C12_CuratedOrWholeRecord ==
    \A i \in DOMAIN inv :
        JsonRead(inv[i])
        => LET text == inv[i].response.contents[1].text
               record == LastAnswer(inv[i]).val
           IN  IF rev = "resources" /\ inv[i].name \in {"workflows", "specifications"}
               THEN \A f \in DOMAIN record : Contains(text, "\"" \o f \o "\": ")
               ELSE /\ ~Contains(text, "owner")
                    /\ ~Contains(text, record.owner)
                    /\ Contains(text, "\"name\": \"" \o record.name \o "\"")

C12_Witness ==
    \E i \in DOMAIN inv :
        /\ rev = "resources"
        /\ JsonRead(inv[i])
        /\ inv[i].name = "workflows"
        /\ Contains(inv[i].response.contents[1].text, "\"owner\": \"org-1\"")


(***************************************************************************)
(* The content formatter, observed through the dereference of a content.   *)
(***************************************************************************)
\* A finished dereference of contents://{id} that was given a content record.
ContentRead(r) ==
    /\ IsDereference(r)
    /\ r.name = "contents"
    /\ r.pc = "done"
    /\ r.answers # <<>>
    /\ r.answers[1].ok
    /\ ~IsNull(r.answers[1].val)

\* The record the remote platform answered with.
ContentOf(r) == r.answers[1].val

\* The dereference returned the formatter's text.
Rendered(r) == ContentRead(r) /\ r.response.contents # <<>>

TextOf(r) == r.response.contents[1].text

\* The positions of the text at which the part starts.
Positions(text, part) ==
    {k \in 1..(Len(text) - Len(part) + 1) : SubSeq(text, k, k + Len(part) - 1) = part}

\* The first position of the part (which the text contains).
FirstAt(text, part) ==
    CHOOSE k \in Positions(text, part) : \A j \in Positions(text, part) : k <= j

\* The field of the record is a non-empty list.
NonEmptyList(c, name) == name \in DOMAIN c /\ c[name] # <<>>

PAGE_MARK == "**Page #"

SEGMENT_MARK == "**Transcript Segment ["

FRAME_MARK == "**Frame #"

\* The flat markdown of the record closes the text as its body.
MarkdownIsBody(r) ==
    /\ "markdown" \in DOMAIN ContentOf(r)
    /\ ContentOf(r).markdown # ""
    /\ LET tail == "\n" \o ContentOf(r).markdown \o "\n\n"
       IN  /\ Len(TextOf(r)) >= Len(tail)
           /\ SubSeq(TextOf(r), Len(TextOf(r)) - Len(tail) + 1, Len(TextOf(r))) = tail

\* C13 as stated: exactly one body representation is rendered, by first match in the
\* order pages, segments, frames, flat markdown: if pages are rendered then no segment,
\* frame or markdown body is rendered; if segments are rendered then no frame or
\* markdown body is rendered.
C13_ExactlyOneBody ==
    \A i \in DOMAIN inv :
        Rendered(inv[i])
        => LET t == TextOf(inv[i])
           IN  /\ Contains(t, PAGE_MARK)
                  => ~Contains(t, SEGMENT_MARK) /\ ~Contains(t, FRAME_MARK)
                     /\ ~MarkdownIsBody(inv[i])
               /\ Contains(t, SEGMENT_MARK)
                  => ~Contains(t, FRAME_MARK) /\ ~MarkdownIsBody(inv[i])

\* C13 amended: the formatter renders every structured body representation that is
\* present, in the order pages, segments, frames (a page is rendered when it has
\* chunks), and renders the flat markdown only when the record has no page, no segment
\* and no frame: if pages, segments or frames are rendered then no markdown body is.
C13_StructuredBodiesThenMarkdown ==
    \A i \in DOMAIN inv :
        Rendered(inv[i])
        => LET t == TextOf(inv[i])
               c == ContentOf(inv[i])
           IN  /\ Contains(t, PAGE_MARK)
                  <=> /\ NonEmptyList(c, "pages")
                      /\ \E k \in 1..Len(c.pages) : NonEmptyList(c.pages[k], "chunks")
               /\ Contains(t, SEGMENT_MARK) <=> NonEmptyList(c, "segments")
               /\ Contains(t, FRAME_MARK) <=> NonEmptyList(c, "frames")
               /\ (Contains(t, PAGE_MARK) /\ Contains(t, SEGMENT_MARK))
                  => FirstAt(t, PAGE_MARK) < FirstAt(t, SEGMENT_MARK)
               /\ (Contains(t, SEGMENT_MARK) /\ Contains(t, FRAME_MARK))
                  => FirstAt(t, SEGMENT_MARK) < FirstAt(t, FRAME_MARK)
               /\ (Contains(t, PAGE_MARK) /\ Contains(t, FRAME_MARK))
                  => FirstAt(t, PAGE_MARK) < FirstAt(t, FRAME_MARK)
               /\ MarkdownIsBody(inv[i])
                  <=> /\ "markdown" \in DOMAIN c /\ c.markdown # ""
                      /\ ~NonEmptyList(c, "pages")
                      /\ ~NonEmptyList(c, "segments")
                      /\ ~NonEmptyList(c, "frames")

\* A record with pages, segments and frames was rendered with all three of them.
C13_Witness ==
    \E i \in DOMAIN inv :
        /\ Rendered(inv[i])
        /\ Contains(TextOf(inv[i]), PAGE_MARK)
        /\ Contains(TextOf(inv[i]), SEGMENT_MARK)
        /\ Contains(TextOf(inv[i]), FRAME_MARK)
        /\ "markdown" \in DOMAIN ContentOf(inv[i])
        /\ ContentOf(inv[i]).markdown = "# Report body"

\* The number a page or a frame is shown with: its index, or 0 without one, plus one.
ShownNumber(x) == NumStr((IF "index" \in DOMAIN x THEN x.index ELSE 0) + 1)

\* The record has a non-empty pages list and a non-empty flat markdown.
PagesAndMarkdown(c) ==
    NonEmptyList(c, "pages") /\ "markdown" \in DOMAIN c /\ c.markdown # ""

\* C14: for every content record with a non-empty pages list and a non-empty flat
\* markdown field, the output contains the rendering of the pages (for each page with
\* chunks its page-number header, then the text of each of its non-empty chunks) and
\* never contains the markdown text as a body.
C14_PagesNotMarkdown ==
    \A i \in DOMAIN inv :
        (Rendered(inv[i]) /\ PagesAndMarkdown(ContentOf(inv[i])))
        => LET t == TextOf(inv[i])
               c == ContentOf(inv[i])
           IN  /\ \A k \in 1..Len(c.pages) :
                      NonEmptyList(c.pages[k], "chunks")
                      => /\ Contains(t, "\n" \o PAGE_MARK \o ShownNumber(c.pages[k]) \o ":**\n")
                         /\ \A n \in 1..Len(c.pages[k].chunks) :
                                LET chunk == c.pages[k].chunks[n]
                                IN  (~IsNull(chunk) /\ "text" \in DOMAIN chunk
                                     /\ chunk.text # "")
                                    => Contains(t, "\n" \o chunk.text \o "\n")
               /\ ~MarkdownIsBody(inv[i])
               /\ ~Contains(t, c.markdown)

\* A record with two pages and a flat markdown was rendered with its pages.
C14_Witness ==
    \E i \in DOMAIN inv :
        /\ Rendered(inv[i])
        /\ PagesAndMarkdown(ContentOf(inv[i]))
        /\ Len(ContentOf(inv[i]).pages) = 2
        /\ Contains(TextOf(inv[i]), "**Page #1:**\nPage one text\n\n---\n\n**Page #2:**\nSecond page")

\* The record has no optional field: nothing but its identity, type and names.
NoOptionalField(c) == DOMAIN c \subseteq {"id", "type", "name", "fileType", "fileName"}

\* The value shown for a field: the text "undefined" when the record lacks it.
Shown(c, name) == IF name \in DOMAIN c THEN c[name] ELSE "undefined"

IdLine(c) == "**Content ID:** " \o Shown(c, "id")

FileLines(c) ==
    "**File Type:** [" \o Shown(c, "fileType") \o "]\n**File Name:** " \o Shown(c, "fileName")

TypeLine(c) == "**Type:** [" \o Shown(c, "type") \o "]"

NameLine(c) == "**Name:** " \o Shown(c, "name")

IsFile(c) == "type" \in DOMAIN c /\ c.type = "FILE"

NameSuppressed(c) == "type" \in DOMAIN c /\ c.type \in {"PAGE", "EMAIL"}

\* C15 as stated: for every content record in which every optional field is absent
\* the formatter returns, without throwing, exactly the identifier line followed by
\* the file-type and file-name lines (type File) or by the type line and the name line
\* (other types), and no other line.
C15_MinimalRecordLines ==
    \A i \in DOMAIN inv :
        (ContentRead(inv[i]) /\ NoOptionalField(ContentOf(inv[i])))
        => LET c == ContentOf(inv[i])
           IN  /\ Rendered(inv[i])
               /\ TextOf(inv[i]) =
                    IdLine(c) \o "\n" \o
                    (IF IsFile(c) THEN FileLines(c) ELSE TypeLine(c) \o "\n" \o NameLine(c))

\* C15 amended: for every content record in which every optional field is absent the
\* formatter returns, without throwing, exactly the identifier line followed by the
\* file-type and file-name lines (type File) or by the type line and, unless the type is
\* Page or Email, the name line (other types), and no other line.  A missing type, name,
\* file type or file name is shown as the text "undefined".
C15_MinimalRecordLinesByType ==
    \A i \in DOMAIN inv :
        (ContentRead(inv[i]) /\ NoOptionalField(ContentOf(inv[i])))
        => LET c == ContentOf(inv[i])
           IN  /\ Rendered(inv[i])
               /\ TextOf(inv[i]) =
                    IdLine(c) \o "\n" \o
                    (IF IsFile(c) THEN FileLines(c)
                     ELSE IF NameSuppressed(c) THEN TypeLine(c)
                     ELSE TypeLine(c) \o "\n" \o NameLine(c))

\* A page without any optional field was rendered as its identifier and type lines.
C15_Witness ==
    \E i \in DOMAIN inv :
        /\ Rendered(inv[i])
        /\ NoOptionalField(ContentOf(inv[i]))
        /\ TextOf(inv[i]) = "**Content ID:** abc123\n**Type:** [PAGE]"

NAME_MARK == "**Name:** "

\* C16: for every content record whose type is Page, and likewise Email, whatever its
\* name field holds, the output contains no Name line.
C16_NoNameLineForPageAndEmail ==
    \A i \in DOMAIN inv :
        (Rendered(inv[i]) /\ NameSuppressed(ContentOf(inv[i])))
        => ~Contains(TextOf(inv[i]), NAME_MARK)

\* A page that has a name was rendered.
C16_Witness ==
    \E i \in DOMAIN inv :
        /\ Rendered(inv[i])
        /\ NameSuppressed(ContentOf(inv[i]))
        /\ "name" \in DOMAIN ContentOf(inv[i])
        /\ ContentOf(inv[i]).name = "Home"
        /\ Contains(TextOf(inv[i]), "**Type:** [PAGE]")

COLLECTION_MARK == "\n**Collection ["

LINK_MARK == " Link:** "

\* The positions of the list that hold a membership, not null.
Held(list) == {k \in 1..Len(list) : list[k] # NullEntity}

\* The first n of the positions.
FirstOf(positions, n) == {k \in positions : Cardinality({j \in positions : j <= k}) <= n}

MembershipLine(m) == "\n**Collection [" \o m.name \o "]:** collections://" \o m.id

LinkLineOf(link) == "\n**" \o link.linkType \o " Link:** " \o link.uri

Min(a, b) == IF a <= b THEN a ELSE b

\* The memberships and the links of the record, empty when it has none.
ListOf(c, name) == IF name \in DOMAIN c THEN c[name] ELSE <<>>

\* The output has one line for each of the kept memberships, in their order, and no
\* other membership line.
MembershipLinesAre(t, list, kept) ==
    /\ Cardinality(Positions(t, COLLECTION_MARK)) = Cardinality(kept)
    /\ \A k \in kept : Contains(t, MembershipLine(list[k]))
    /\ \A k, j \in kept :
           (k < j /\ ~\E m \in kept : k < m /\ m < j)
           => FirstAt(t, MembershipLine(list[k])) < FirstAt(t, MembershipLine(list[j]))

\* The output has one line for each of the first n links and no other link line.
LinkLinesAre(t, list, n) ==
    /\ Cardinality(Positions(t, LINK_MARK)) = Min(n, Len(list))
    /\ Min(n, Len(list)) > 0
       => /\ Contains(t, LinkLineOf(list[1]))
          /\ Contains(t, LinkLineOf(list[Min(n, Len(list))]))
    /\ Len(list) > n => ~Contains(t, LinkLineOf(list[n + 1]))

\* C17 as stated: for any number of collection memberships the output has at most 100
\* membership lines, exactly the first 100 non-null ones when there are more, and for a
\* Page content with any number of links the output has at most 1000 link lines.
C17_ListsTruncated ==
    \A i \in DOMAIN inv :
        Rendered(inv[i])
        => LET t == TextOf(inv[i])
               c == ContentOf(inv[i])
               memberships == ListOf(c, "collections")
           IN  /\ Cardinality(Positions(t, COLLECTION_MARK)) <= 100
               /\ Cardinality(Held(memberships)) > 100
                  => MembershipLinesAre(t, memberships, FirstOf(Held(memberships), 100))
               /\ ("type" \in DOMAIN c /\ c.type = "PAGE")
                  => Cardinality(Positions(t, LINK_MARK)) <= 1000

\* C17 amended: in the part_002 revision, for any number of collection memberships the
\* output has one line for each of the first 100 non-null ones, and for a Page content
\* one line for each of its first 1000 links.  In the index.ts revision the output has
\* no membership line, and for a Page content one line for each of its first 100 links.
\* A content that is not a Page has no link line.
C17_ListsTruncatedByRevision ==
    \A i \in DOMAIN inv :
        Rendered(inv[i])
        => LET t == TextOf(inv[i])
               c == ContentOf(inv[i])
               memberships == ListOf(c, "collections")
               links == ListOf(c, "links")
           IN  /\ MembershipLinesAre(t, memberships,
                      IF rev = "index" THEN {} ELSE FirstOf(Held(memberships), 100))
               /\ LinkLinesAre(t, links,
                      IF ~("type" \in DOMAIN c /\ c.type = "PAGE") THEN 0
                      ELSE IF rev = "index" THEN 100 ELSE 1000)

\* The part_002 revision rendered a record of more than 100 non-null memberships.
C17_Witness ==
    \E i \in DOMAIN inv :
        /\ Rendered(inv[i])
        /\ rev = "resources"
        /\ Cardinality(Held(ListOf(ContentOf(inv[i]), "collections"))) > 100
        /\ Cardinality(Positions(TextOf(inv[i]), COLLECTION_MARK)) = 100

\* The part_002 revision rendered a page of more than 1000 links.
LongPageRendered ==
    \E i \in DOMAIN inv :
        /\ Rendered(inv[i])
        /\ rev = "resources"
        /\ Len(ListOf(ContentOf(inv[i]), "links")) > 1000
        /\ Cardinality(Positions(TextOf(inv[i]), LINK_MARK)) = 1000

URI_MARK == "**URI:** "

\* The record has a non-empty source uri.
HasUri(c) == "uri" \in DOMAIN c /\ c.uri # ""

\* The output has the line of the label for the field when the record has the field.
LineFor(t, c, label, name) ==
    (name \in DOMAIN c /\ c[name] # "") => Contains(t, "\n**" \o label \o ":** " \o c[name])

\* C18 as stated: the formatter never renders the raw source uri: for every content
\* record with a non-empty uri no output line carries that uri as a URI line; only the
\* downloadable original, image and audio URIs are rendered.
C18_SourceUriNeverRendered ==
    \A i \in DOMAIN inv :
        Rendered(inv[i])
        => LET t == TextOf(inv[i])
               c == ContentOf(inv[i])
           IN  /\ ~Contains(t, URI_MARK)
               /\ HasUri(c) => ~Contains(t, c.uri)
               /\ LineFor(t, c, "Downloadable Original", "masterUri")
               /\ LineFor(t, c, "Downloadable Image", "imageUri")
               /\ LineFor(t, c, "Downloadable Audio", "audioUri")

\* C18 amended: the part_002 revision of the formatter never renders the raw source
\* uri: for every content record with a non-empty uri no output line carries that uri
\* as a URI line; only the downloadable original, image and audio URIs are rendered.
\* The index.ts revision renders the uri as a URI line, and of the other three only
\* the image and audio URIs.
C18_SourceUriByRevision ==
    \A i \in DOMAIN inv :
        Rendered(inv[i])
        => LET t == TextOf(inv[i])
               c == ContentOf(inv[i])
           IN  IF rev = "index"
               THEN /\ LineFor(t, c, "URI", "uri")
                    /\ Contains(t, URI_MARK) <=> HasUri(c)
                    /\ LineFor(t, c, "Image URI", "imageUri")
                    /\ LineFor(t, c, "Audio URI", "audioUri")
                    /\ "masterUri" \in DOMAIN c => ~Contains(t, c.masterUri)
               ELSE /\ ~Contains(t, URI_MARK)
                    /\ HasUri(c) => ~Contains(t, c.uri)
                    /\ LineFor(t, c, "Downloadable Original", "masterUri")
                    /\ LineFor(t, c, "Downloadable Image", "imageUri")
                    /\ LineFor(t, c, "Downloadable Audio", "audioUri")

\* The part_002 revision rendered a record that has a source uri and the three
\* downloadable URIs.
C18_Witness ==
    \E i \in DOMAIN inv :
        /\ Rendered(inv[i])
        /\ rev = "resources"
        /\ HasUri(ContentOf(inv[i]))
        /\ Contains(TextOf(inv[i]),
                    "\n**Downloadable Original:** https://dl/original\n**Downloadable Image:** https://dl/image\n**Downloadable Audio:** https://dl/audio\n")

\* C19: the formatter is total: for every content record in which any combination of
\* optional fields or optional sub-fields is missing (an observation without a target
\* reference or without a type, a recipient without a name) it returns a string and
\* never throws, and the line of the missing field is omitted: no line shows a missing
\* value.
C19_FormatterTotal ==
    \A i \in DOMAIN inv :
        ContentRead(inv[i])
        => /\ Rendered(inv[i])
           /\ ~Contains(TextOf(inv[i]), "undefined")

\* The formatter threw on an observation that has no type: the dereference answered
\* with no block.
ObservationWithoutTypeThrows ==
    \E i \in DOMAIN inv :
        /\ ContentRead(inv[i])
        /\ rev = "resources"
        /\ "observations" \in DOMAIN ContentOf(inv[i])
        /\ ContentOf(inv[i]).observations = <<[observable |-> Person]>>
        /\ inv[i].response.contents = <<>>

\* A recipient without a name was rendered with the text "undefined" as its name.
RecipientWithoutNameShown ==
    \E i \in DOMAIN inv :
        /\ Rendered(inv[i])
        /\ Contains(TextOf(inv[i]), "\n**From:** undefined <bob@example.com>")

\* A finished dereference of contents://abc123 that was given the report.
ReportRead(r) ==
    /\ ContentRead(r)
    /\ r.args.uri = "contents://abc123"
    /\ ContentOf(r) =
         [id |-> "abc123", type |-> "FILE", fileType |-> "DOCUMENT",
          fileName |-> "report.pdf",
          document |-> [title |-> "Q1 Report", author |-> "J. Doe"],
          markdown |-> "# Report body"]

\* C20: dereferencing contents://abc123 when the remote returns the file report.pdf of
\* file type Document, with the document title Q1 Report and author J. Doe and the
\* markdown "# Report body", yields one text block whose text is, in order, the Content
\* ID line, the File Type line, the File Name line, the Title line, the Author line,
\* the markdown body and a trailing blank line, and nothing else.
C20_ReportRendering ==
    \A i \in DOMAIN inv :
        ReportRead(inv[i])
        => inv[i].response.contents =
             <<[uri |-> "contents://abc123",
                text |-> "**Content ID:** abc123\n**File Type:** [DOCUMENT]\n**File Name:** report.pdf\n**Title:** Q1 Report\n**Author:** J. Doe\n# Report body\n\n",
                mimeType |-> "text/markdown"]>>

\* The report was dereferenced and answered with one block.
C20_Witness ==
    \E i \in DOMAIN inv :
        /\ ReportRead(inv[i])
        /\ Len(inv[i].response.contents) = 1
        /\ Len(TextOf(inv[i])) = 130
        /\ Contains(TextOf(inv[i]), "**Author:** J. Doe\n# Report body\n")

(***************************************************************************)
(* The connector ingest tools and their read limit.                        *)
(***************************************************************************)
\* An invocation of a connector ingest tool that issued its request.
IngestIssued(r) == r.kind = "tool" /\ r.name \in IngestTools /\ r.ops # <<>>

\* The read limit the connector documents as its default.
DocumentedReadLimit(tool) == IF tool = "ingestRSS" THEN 25 ELSE 100

\* C21: for every connector ingest tool, when the caller omits readLimit the single
\* remote request carries the connector's documented default, 25 for the RSS
\* connector and 100 for every other connector; when the caller supplies a read limit,
\* that value is what the request carries.
C21_ReadLimitDefaultOrSupplied ==
    \A i \in DOMAIN inv :
        IngestIssued(inv[i])
        => /\ Len(inv[i].ops) = 1
           /\ inv[i].ops[1].readLimit =
                IF inv[i].args.readLimit = <<>>
                THEN <<DocumentedReadLimit(inv[i].name)>>
                ELSE inv[i].args.readLimit

\* The RSS connector, called with readLimit 0, asked the remote platform for 25.
ZeroReadLimitReplaced ==
    \E i \in DOMAIN inv :
        /\ IngestIssued(inv[i])
        /\ inv[i].name = "ingestRSS"
        /\ inv[i].args.readLimit = <<0>>
        /\ inv[i].ops[1].readLimit = <<25>>

\* C28: for every connector ingest tool a caller-supplied readLimit of 0 is not
\* forwarded to the remote request, which carries the connector default instead (100,
\* or 25 for RSS), while every non-zero readLimit is forwarded unchanged.
C28_ZeroReadLimitNotForwarded ==
    \A i \in DOMAIN inv :
        (IngestIssued(inv[i]) /\ inv[i].args.readLimit # <<>>)
        => inv[i].ops[1].readLimit =
             IF inv[i].args.readLimit[1] = 0
             THEN <<DocumentedReadLimit(inv[i].name)>>
             ELSE inv[i].args.readLimit

\* The web crawl, called with readLimit 0, asked the remote platform for 100, and got
\* its answer.
C28_Witness ==
    \E i \in DOMAIN inv :
        /\ IngestIssued(inv[i])
        /\ inv[i].name = "webCrawl"
        /\ inv[i].args.readLimit = <<0>>
        /\ inv[i].ops[1].readLimit = <<100>>
        /\ inv[i].pc = "done"

(***************************************************************************)
(* The rendering of result records.                                        *)
(***************************************************************************)
\* A finished retrieval that was given a list of results.
MarkupDone(r) ==
    /\ r.kind = "tool"
    /\ r.name = "retrieveSources"
    /\ r.pc = "done"
    /\ r.answers[1].ok

MarkupOf(r) == r.response.content[1].text

\* The k-th of a set of positions.
Kth(positions, k) ==
    CHOOSE p \in positions : Cardinality({q \in positions : q <= p}) = k

\* The k-th child element of the markup, from its opening tag to its closing tag.
ChildElement(t, k) ==
    SubSeq(t, Kth(Positions(t, "\n<result"), k) + 1, Kth(Positions(t, "</result>"), k) + 8)

\* The opening tag of an element, and what lies between it and the closing tag.
OpeningTag(e) == SubSeq(e, 1, FirstAt(e, ">"))

BodyOf(e) == SubSeq(e, FirstAt(e, ">") + 1, Len(e) - 9)

\* The attribute each field is rendered as.
AttributeNames ==
    [content |-> "content", type |-> "type", pageNumber |-> "page-number",
     frameNumber |-> "frame-number", startTime |-> "start-time", endTime |-> "end-time",
     relevance |-> "relevance", metadata |-> "metadata", text |-> "text"]

RECURSIVE ChunkTexts(_)
ChunkTexts(chunks) ==
    IF chunks = <<>> THEN ""
    ELSE (IF Head(chunks) # NullEntity /\ "text" \in DOMAIN Head(chunks)
             /\ Head(chunks).text # ""
          THEN Head(chunks).text \o "\n" ELSE "")
         \o ChunkTexts(Tail(chunks))

\* What a page contributes, a newline before each line: nothing without chunks, else
\* the header, the chunk texts and the horizontal rule.
PageText(page) ==
    IF ~NonEmptyList(page, "chunks") THEN ""
    ELSE "\n**Page #" \o ShownNumber(page) \o ":**\n" \o ChunkTexts(page.chunks) \o "\n---\n"

RECURSIVE PagesText(_)
PagesText(pages) ==
    IF pages = <<>> THEN "" ELSE PageText(Head(pages)) \o PagesText(Tail(pages))

\* The lines before the body of a record that has no metadata and no sub-record.
HeadText(c) ==
    IdLine(c) \o "\n" \o
    (IF IsFile(c) THEN FileLines(c)
     ELSE IF NameSuppressed(c) THEN TypeLine(c)
     ELSE TypeLine(c) \o "\n" \o NameLine(c))

\* The record has nothing but its identity, type, names and body.
BodyOnly(c) ==
    DOMAIN c \subseteq {"id", "type", "name", "fileType", "fileName",
                        "pages", "segments", "frames", "markdown"}

\* C23: a page with no chunks contributes no lines at all; a page with at least one
\* chunk contributes, in order, a header showing the page's index plus one, then the
\* text of each chunk whose text is non-empty in chunk order, then one horizontal-rule
\* separator; pages are rendered in list order.
C23_PagesRendering ==
    \A i \in DOMAIN inv :
        (Rendered(inv[i]) /\ BodyOnly(ContentOf(inv[i]))
            /\ NonEmptyList(ContentOf(inv[i]), "pages"))
        => LET t == TextOf(inv[i])
               c == ContentOf(inv[i])
               expected == HeadText(c) \o PagesText(c.pages)
           IN  /\ Len(t) >= Len(expected)
               /\ SubSeq(t, 1, Len(expected)) = expected
               /\ (~NonEmptyList(c, "segments") /\ ~NonEmptyList(c, "frames"))
                  => t = expected
               /\ Cardinality(Positions(t, PAGE_MARK)) =
                    Cardinality({k \in 1..Len(c.pages) : NonEmptyList(c.pages[k], "chunks")})

\* A page with a text chunk, a null chunk and an empty chunk, followed by a second
\* page, was rendered.
C23_Witness ==
    \E i \in DOMAIN inv :
        /\ Rendered(inv[i])
        /\ BodyOnly(ContentOf(inv[i]))
        /\ TextOf(inv[i]) =
             "**Content ID:** abc123\n**Type:** [PAGE]\n**Page #1:**\nPage one text\n\n---\n\n**Page #2:**\nSecond page\n\n---\n"

\* A record whose only page has no chunks was rendered without any body line.
ChunklessPageRendered ==
    \E i \in DOMAIN inv :
        /\ Rendered(inv[i])
        /\ "pages" \in DOMAIN ContentOf(inv[i])
        /\ ContentOf(inv[i]).pages = <<[index |-> 2]>>
        /\ TextOf(inv[i]) = "**Content ID:** abc123\n**Type:** [PAGE]"

(***************************************************************************)
(* Termination of the handlers.                                            *)
(***************************************************************************)
\* The handler of the slot has finished: it returned its response, or its failure was
\* handed to the host, or it ended the process.
Finishes(i) == inv[i].pc \in {"done", "threw", "exited"}

\* C24: when every remote call eventually resolves or rejects, every tool and resource
\* handler invocation eventually finishes, with exactly one response or with the end
\* of the process; an invocation that has not finished is waiting for a remote call.
C24_EveryInvocationFinishes ==
    /\ (inv[1].pc = "await") ~> Finishes(1)
    /\ [](inv[1].pc \in {"idle", "await", "done", "threw", "exited"})
    /\ [](inv[1].pc = "done" => inv[1].response # NoResponse)

\* The project dereference finished after its three remote calls.
C24_Witness ==
    /\ inv[1].kind = "read"
    /\ inv[1].name = "projects"
    /\ inv[1].pc = "done"
    /\ Len(inv[1].answers) = 3

(***************************************************************************)
(* Credentials.                                                            *)
(***************************************************************************)
\* The configuration values each credential-requiring tool reads.
RequiredValues ==
    [ingestSharePointFiles |->
        {"SHAREPOINT_ACCOUNT_NAME", "SHAREPOINT_CLIENT_ID", "SHAREPOINT_CLIENT_SECRET",
         "SHAREPOINT_REFRESH_TOKEN"},
     ingestSlackMessages |-> {"SLACK_BOT_TOKEN"},
     sendSlackNotification |-> {"SLACK_BOT_TOKEN"},
     sendEmailNotification |-> {"FROM_EMAIL_ADDRESS"}]

\* An invocation of a credential-requiring tool for which some required value is not
\* set.
LacksCredential(r) ==
    /\ r.kind = "tool"
    /\ r.name \in DOMAIN RequiredValues
    /\ \E n \in RequiredValues[r.name] : env[n] = "undefined"

\* C25: in every invocation of a credential-requiring tool all required configuration
\* values are checked before the remote operation is issued: an invocation for which
\* some required value is missing never issues a remote operation.
C25_ChecksBeforeRemoteOperation ==
    \A i \in DOMAIN inv :
        LacksCredential(inv[i]) => inv[i].ops = <<>> /\ inv[i].pc = "exited"

\* The SharePoint ingest found the last of its four values missing and issued nothing.
C25_Witness ==
    \E i \in DOMAIN inv :
        /\ LacksCredential(inv[i])
        /\ inv[i].name = "ingestSharePointFiles"
        /\ env["SHAREPOINT_REFRESH_TOKEN"] = "undefined"
        /\ inv[i].ops = <<>>
        /\ ~alive

(***************************************************************************)
(* The end of the process and the invocations in flight.                   *)
(***************************************************************************)
\* Some invocation found a required value missing and called process.exit.
SomeExited == \E i \in DOMAIN inv : inv[i].pc = "exited"

\* C26: the end of the process is shared across handlers: when one tool invocation
\* finds a required credential missing while another tool or resource invocation is
\* still waiting on its remote call, the process exits and the waiting invocation
\* never emits its response: it is never resumed and its slot never answers.
C26_ExitEndsWaitingInvocations ==
    /\ [](SomeExited => ~alive /\ exitCode = 1)
    /\ [][\A i \in 1..MaxConc :
            (~alive /\ inv[i].pc = "await")
            => (inv'[i].pc = "await" /\ inv'[i].response = NoResponse)]_vars
    /\ [][~alive => ~alive']_vars

\* A dereference was waiting for its remote call when a tool invocation ended the
\* process.
C26_Witness ==
    \E i, j \in DOMAIN inv :
        /\ inv[i].pc = "exited"
        /\ inv[i].name = "ingestSlackMessages"
        /\ inv[j].pc = "await"
        /\ inv[j].kind = "read"
        /\ ~alive

\* An invocation of a credential-requiring tool for which some required value is the
\* empty string.
HasEmptyCredential(r) ==
    /\ r.kind = "tool"
    /\ r.name \in DOMAIN RequiredValues
    /\ \E n \in RequiredValues[r.name] : env[n] = ""

\* C27: a required credential configured as the empty string is treated exactly like
\* an absent one: the tool invocation ends the process instead of issuing the remote
\* call; and the packaged launcher passes the empty string for an optional credential
\* that is not set.
C27_EmptyCredentialExits ==
    /\ \A i \in DOMAIN inv :
           HasEmptyCredential(inv[i])
           => /\ inv[i].ops = <<>>
              /\ inv[i].pc = "exited"
              /\ ~alive
              /\ exitCode = 1
    /\ \A configured \in {"undefined", ""} : LauncherValue(configured) = ""
    /\ LauncherValue("tok") = "tok"

\* The Slack ingest was called with SLACK_BOT_TOKEN set to the empty string, and the
\* process ended.
C27_Witness ==
    \E i \in DOMAIN inv :
        /\ inv[i].kind = "tool"
        /\ inv[i].name = "ingestSlackMessages"
        /\ env["SLACK_BOT_TOKEN"] = ""
        /\ inv[i].pc = "exited"
        /\ ~alive

(***************************************************************************)
(* The secondary fetch of an image.                                        *)
(***************************************************************************)
\* A finished dereference of an image whose secondary fetch was answered with a status
\* that is not OK, or threw.
ImageFetchFailed(r) ==
    /\ ImageRead(r)
    /\ Len(r.ops) = 2
    /\ r.ops[2].op = "fetch"
    /\ Len(r.answers) = 2
    /\ (~r.answers[2].ok \/ ~r.answers[2].val.ok)

\* C29: in the contents://{id} dereference of an Image content, if the secondary image
\* fetch responds with a status that is not OK or throws, the whole dereference returns
\* an empty contents list: the formatted text block is not returned.
C29_FetchFailureIsEmptyContents ==
    \A i \in DOMAIN inv :
        ImageFetchFailed(inv[i]) => inv[i].response = [contents |-> <<>>]

\* The fetch of an image answered Not Found, and the dereference returned no block.
C29_Witness ==
    \E i \in DOMAIN inv :
        /\ ImageFetchFailed(inv[i])
        /\ inv[i].answers[2].ok
        /\ inv[i].answers[2].val.statusText = "Not Found"
        /\ inv[i].response.contents = <<>>

\* The fetch of an image threw, and the dereference returned no block.
ImageFetchThrew ==
    \E i \in DOMAIN inv :
        /\ ImageFetchFailed(inv[i])
        /\ ~inv[i].answers[2].ok
        /\ inv[i].response.contents = <<>>

(***************************************************************************)
(* The order of the mutations of configureProject.                         *)
(***************************************************************************)
\* The kinds of mutation a call with these arguments issues when nothing fails, in the
\* order of the handler.
MutationOrder(args) ==
    (IF args.enablePreparation THEN <<"PREPARATION">> ELSE <<>>)
    \o (IF args.enableExtraction THEN <<"EXTRACTION">> ELSE <<>>)
    \o <<"upsertWorkflow", "updateProject">>

\* The kind of an issued mutation.
MutationKind(req) == IF req.op = "upsertSpecification" THEN req.type ELSE req.op

IsConfigure(r) == r.pc # "idle" /\ r.name = "configureProject"

\* C30: configureProject issues its mutations in the order preparation specification (if
\* enabled), extraction specification (if enabled), workflow, project update, each
\* answered before the next is issued; once a step fails no further mutation is issued,
\* so the earlier ones stay applied and the project update is never issued.
C30_MutationsInOrderNoRollback ==
    \A i \in DOMAIN inv :
        IsConfigure(inv[i]) =>
            LET r == inv[i]
                order == MutationOrder(r.args)
            IN  /\ Len(r.ops) <= Len(order)
                /\ \A k \in 1..Len(r.ops) : MutationKind(r.ops[k]) = order[k]
                /\ Len(r.answers) \in {Len(r.ops), Len(r.ops) - 1}
                /\ \A k \in 1..Len(r.answers) :
                       ~r.answers[k].ok =>
                           /\ k = Len(r.ops)
                           /\ Finished(r)
                           /\ (k < Len(order) =>
                                   \A j \in 1..Len(r.ops) : r.ops[j].op # "updateProject")

\* Both specifications were upserted, the workflow upsert failed, and the call ended with
\* those three mutations issued and no project update.
C30_Witness ==
    \E i \in DOMAIN inv :
        /\ IsConfigure(inv[i])
        /\ Finished(inv[i])
        /\ inv[i].args.enablePreparation
        /\ inv[i].args.enableExtraction
        /\ Len(inv[i].ops) = 3
        /\ inv[i].ops[1].type = "PREPARATION"
        /\ inv[i].ops[2].type = "EXTRACTION"
        /\ inv[i].ops[3].op = "upsertWorkflow"
        /\ inv[i].answers[1].ok
        /\ inv[i].answers[2].ok
        /\ ~inv[i].answers[3].ok

\* All four mutations were issued in order and the call returned.
AllMutationsIssued ==
    \E i \in DOMAIN inv :
        /\ IsConfigure(inv[i])
        /\ inv[i].pc = "done"
        /\ Len(inv[i].ops) = 4
        /\ inv[i].ops[4].op = "updateProject"
        /\ inv[i].answers[4].ok

====
